---------------------------- MODULE Spec2Model ----------------------------
(***************************************************************************)
(* AgentTrace CLI: the permission/risk inference engine, the manifest      *)
(* assembler (deduplicate, filter, summarise, sort) and the scan command   *)
(* that drives the detectors, modelled from the TypeScript sources.        *)
(*                                                                         *)
(* JavaScript strings are sequences of one-character strings, so that      *)
(* tokenisation, prefix/suffix matching, key concatenation, case mapping   *)
(* and collation are computed rather than assumed.  An optional value is   *)
(* <<>> (undefined) or <<v>>.                                              *)
(***************************************************************************)
EXTENDS Integers, Sequences, FiniteSets, TLC

VARIABLES
  pc,        \* position of scanCommand
  options,   \* ScanOptions: framework and risk filters, json, output
  files,     \* FileInfo[] returned by walkDirectory
  cursor,    \* number of files already handed to router.processFile
  result,    \* the DetectorResult scanCommand accumulates and rewrites
  manifest,  \* the Manifest built by createManifest (<<>> before)
  detectors, \* the detector instances' fields and their patterns' lastIndex
  console,   \* what has been printed, in order
  outFile,   \* the manifest written to options.output (<<>> before)
  exitCode,  \* the status process.exit was called with (<<>> before)
  args,      \* argument of a direct call of an exported function
  ret        \* its return value (<<>> before the call returns)

vars ==
  <<pc, options, files, cursor, result, manifest, detectors, console, outFile, exitCode,
    args, ret>>

NONE == <<>>
SOME(v) == <<v>>

-----------------------------------------------------------------------------
(* Characters *)

Lowers ==
  << "a","b","c","d","e","f","g","h","i","j","k","l","m",
     "n","o","p","q","r","s","t","u","v","w","x","y","z" >>

Uppers ==
  << "A","B","C","D","E","F","G","H","I","J","K","L","M",
     "N","O","P","Q","R","S","T","U","V","W","X","Y","Z" >>

Digits == << "0","1","2","3","4","5","6","7","8","9" >>

IsLower(c) == \E i \in DOMAIN Lowers : Lowers[i] = c
IsUpper(c) == \E i \in DOMAIN Uppers : Uppers[i] = c
IsDigit(c) == \E i \in DOMAIN Digits : Digits[i] = c
IsSpace(c) == c \in {" ", "\t", "\n"}

IndexIn(seq, c) == CHOOSE i \in DOMAIN seq : seq[i] = c

toLowerChar(c) == IF IsUpper(c) THEN Lowers[IndexIn(Uppers, c)] ELSE c
toUpperChar(c) == IF IsLower(c) THEN Uppers[IndexIn(Lowers, c)] ELSE c

\* String.prototype.toLowerCase / toUpperCase
toLowerCase(s) == [i \in DOMAIN s |-> toLowerChar(s[i])]
toUpperCase(s) == [i \in DOMAIN s |-> toUpperChar(s[i])]

\* String.prototype.startsWith / endsWith
startsWith(s, k) == Len(k) <= Len(s) /\ SubSeq(s, 1, Len(k)) = k
endsWith(s, k) == Len(k) <= Len(s) /\ SubSeq(s, Len(s) - Len(k) + 1, Len(s)) = k


\* helpers over sequences and sets
Range(seq) == {seq[i] : i \in DOMAIN seq}

SeqsUpTo(S, n) == UNION {[1..k -> S] : k \in 0..n}

\* the k-th smallest element of a set of numbers
Nth(S, k) == CHOOSE x \in S : Cardinality({y \in S : y < x}) = k - 1

\* the elements of list at the positions in keep, in list order
SubseqAt(list, keep) == [k \in 1..Cardinality(keep) |-> list[Nth(keep, k)]]

RECURSIVE Flatten(_)
Flatten(seqs) == IF seqs = <<>> THEN <<>> ELSE Head(seqs) \o Flatten(Tail(seqs))

Min(S) == CHOOSE x \in S : \A y \in S : x <= y

Max(S) == CHOOSE x \in S : \A y \in S : y <= x

\* `${n}` for a number n >= 0
RECURSIVE ToDecimal(_)
ToDecimal(n) ==
  IF n < 10 THEN <<Digits[n + 1]>>
  ELSE ToDecimal(n \div 10) \o <<Digits[(n % 10) + 1]>>

\* String.prototype.trim
RECURSIVE trimStart(_)
trimStart(s) == IF s # <<>> /\ IsSpace(s[1]) THEN trimStart(Tail(s)) ELSE s

RECURSIVE trimEnd(_)
trimEnd(s) ==
  IF s # <<>> /\ IsSpace(s[Len(s)]) THEN trimEnd(SubSeq(s, 1, Len(s) - 1)) ELSE s

trim(s) == trimEnd(trimStart(s))

\* s.split(c)[0]: s up to the first c
firstPiece(s, c) ==
  IF \E i \in DOMAIN s : s[i] = c
  THEN SubSeq(s, 1, Min({i \in DOMAIN s : s[i] = c}) - 1)
  ELSE s

\* s.split(c).pop(): s after the last c
lastPiece(s, c) ==
  IF \E i \in DOMAIN s : s[i] = c
  THEN SubSeq(s, (CHOOSE i \in DOMAIN s : s[i] = c /\ \A j \in DOMAIN s : s[j] = c => j <= i) + 1,
              Len(s))
  ELSE s
-----------------------------------------------------------------------------
(* inference/permissions.ts *)

\* READ_KEYWORDS, in source order
READ_KEYWORDS ==
  << <<"g","e","t">>, <<"r","e","a","d">>, <<"f","e","t","c","h">>, <<"l","i","s","t">>,
     <<"s","e","a","r","c","h">>, <<"q","u","e","r","y">>, <<"f","i","n","d">>,
     <<"l","o","o","k","u","p">>, <<"r","e","t","r","i","e","v","e">>, <<"s","h","o","w">>,
     <<"d","i","s","p","l","a","y">>, <<"v","i","e","w">>,
     <<"d","e","s","c","r","i","b","e">>, <<"c","h","e","c","k">>,
     <<"i","n","s","p","e","c","t">>, <<"c","o","u","n","t">>, <<"e","x","i","s","t","s">>,
     <<"h","a","s">>, <<"i","s">>, <<"c","a","n">>, <<"l","o","a","d">>,
     <<"p","a","r","s","e">>, <<"e","x","t","r","a","c","t">>, <<"s","e","l","e","c","t">>,
     <<"f","i","l","t","e","r">>, <<"s","o","r","t">>, <<"b","r","o","w","s","e">>,
     <<"s","c","a","n">>, <<"a","n","a","l","y","z","e">>,
     <<"v","a","l","i","d","a","t","e">> >>

\* WRITE_KEYWORDS, in source order
WRITE_KEYWORDS ==
  << <<"c","r","e","a","t","e">>, <<"a","d","d">>, <<"i","n","s","e","r","t">>,
     <<"w","r","i","t","e">>, <<"u","p","d","a","t","e">>, <<"s","e","t">>, <<"p","u","t">>,
     <<"p","o","s","t">>, <<"s","a","v","e">>, <<"s","t","o","r","e">>,
     <<"u","p","l","o","a","d">>, <<"p","u","s","h">>, <<"m","o","d","i","f","y">>,
     <<"e","d","i","t">>, <<"c","h","a","n","g","e">>, <<"p","a","t","c","h">>,
     <<"a","p","p","e","n","d">>, <<"r","e","g","i","s","t","e","r">>,
     <<"s","u","b","m","i","t">>, <<"s","e","n","d">>, <<"p","u","b","l","i","s","h">>,
     <<"c","o","n","f","i","g","u","r","e">>, <<"e","n","a","b","l","e">>,
     <<"d","i","s","a","b","l","e">>, <<"t","o","g","g","l","e">>,
     <<"a","s","s","i","g","n">>, <<"a","l","l","o","c","a","t","e">>,
     <<"g","r","a","n","t">>, <<"r","e","v","o","k","e">> >>

\* DELETE_KEYWORDS, in source order
DELETE_KEYWORDS ==
  << <<"d","e","l","e","t","e">>, <<"r","e","m","o","v","e">>, <<"d","r","o","p">>,
     <<"d","e","s","t","r","o","y">>, <<"t","r","u","n","c","a","t","e">>,
     <<"c","l","e","a","r">>, <<"p","u","r","g","e">>, <<"w","i","p","e">>,
     <<"e","r","a","s","e">>, <<"u","n","i","n","s","t","a","l","l">>,
     <<"t","e","r","m","i","n","a","t","e">>, <<"k","i","l","l">>, <<"s","t","o","p">>,
     <<"a","b","o","r","t">>, <<"c","a","n","c","e","l">>, <<"r","e","v","o","k","e">>,
     <<"r","e","s","e","t">>, <<"c","l","e","a","n">>, <<"f","l","u","s","h">>,
     <<"i","n","v","a","l","i","d","a","t","e">> >>

\* EXECUTE_KEYWORDS, in source order
EXECUTE_KEYWORDS ==
  << <<"e","x","e","c","u","t","e">>, <<"r","u","n">>, <<"e","v","a","l">>,
     <<"s","h","e","l","l">>, <<"e","x","e","c">>, <<"s","p","a","w","n">>,
     <<"i","n","v","o","k","e">>, <<"c","a","l","l">>, <<"t","r","i","g","g","e","r">>,
     <<"s","t","a","r","t">>, <<"l","a","u","n","c","h">>, <<"d","e","p","l","o","y">>,
     <<"i","n","s","t","a","l","l">>, <<"m","i","g","r","a","t","e">>,
     <<"a","p","p","l","y">>, <<"p","r","o","c","e","s","s">>,
     <<"p","e","r","f","o","r","m">>, <<"d","o">>, <<"a","c","t","i","o","n">>,
     <<"c","o","m","m","a","n","d">>, <<"s","c","r","i","p","t">>, <<"c","o","d","e">> >>

\* OUTPUT_KEYWORDS, in source order
OUTPUT_KEYWORDS ==
  << <<"d","i","s","p","l","a","y">>, <<"s","h","o","w">>, <<"r","e","n","d","e","r">>,
     <<"o","u","t","p","u","t">>, <<"p","r","i","n","t">>, <<"f","o","r","m","a","t">>,
     <<"p","r","e","s","e","n","t">>, <<"v","i","s","u","a","l","i","z","e">>,
     <<"c","h","a","r","t">>, <<"g","r","a","p","h">>, <<"r","e","p","o","r","t">>,
     <<"e","x","p","o","r","t">>, <<"d","o","w","n","l","o","a","d">> >>
Permissions == {"READ", "WRITE", "DELETE", "EXECUTE", "OUTPUT", "UNKNOWN"}

LOW == <<"L","O","W">>
MEDIUM == <<"M","E","D","I","U","M">>
HIGH == <<"H","I","G","H">>
RiskLevels == {LOW, MEDIUM, HIGH}

PERMISSION_RISK_MAP ==
  [p \in Permissions |->
     CASE p = "READ" -> LOW
       [] p = "OUTPUT" -> LOW
       [] p = "WRITE" -> MEDIUM
       [] p = "DELETE" -> HIGH
       [] p = "EXECUTE" -> HIGH
       [] p = "UNKNOWN" -> MEDIUM]

\* the same replace without the g flag: only the first match is replaced
replaceCamelCaseFirstOnly(s) ==
  IF \E i \in 1..(Len(s) - 1) : IsLower(s[i]) /\ IsUpper(s[i + 1])
  THEN LET i == CHOOSE j \in 1..(Len(s) - 1) :
                  /\ IsLower(s[j]) /\ IsUpper(s[j + 1])
                  /\ \A k \in 1..(j - 1) : ~(IsLower(s[k]) /\ IsUpper(s[k + 1]))
       IN SubSeq(s, 1, i) \o <<" ">> \o SubSeq(s, i + 1, Len(s))
  ELSE s

\* .replace(/([a-z])([A-Z])/g, '$1 $2'): a match consumes both letters, the
\* search resumes after it
RECURSIVE replaceCamelCase(_)
replaceCamelCase(s) ==
  IF Len(s) < 2 THEN s
  ELSE IF IsLower(s[1]) /\ IsUpper(s[2])
    THEN <<s[1], " ", s[2]>> \o replaceCamelCase(SubSeq(s, 3, Len(s)))
    ELSE <<s[1]>> \o replaceCamelCase(Tail(s))

\* .replace(/[_-]/g, ' ')
replaceSeparators(s) == [i \in DOMAIN s |-> IF s[i] \in {"_", "-"} THEN " " ELSE s[i]]

\* .split(/\s+/): the pieces between maximal runs of white space, the empty
\* pieces at either end included
RECURSIVE skipSpaces(_)
skipSpaces(s) == IF s # <<>> /\ IsSpace(s[1]) THEN skipSpaces(Tail(s)) ELSE s

RECURSIVE splitWhitespace(_)
splitWhitespace(s) ==
  IF \A i \in DOMAIN s : ~IsSpace(s[i]) THEN <<s>>
  ELSE LET i == CHOOSE j \in DOMAIN s :
                  IsSpace(s[j]) /\ \A k \in 1..(j - 1) : ~IsSpace(s[k])
       IN <<SubSeq(s, 1, i - 1)>> \o splitWhitespace(skipSpaces(SubSeq(s, i, Len(s))))

\* .filter(Boolean) on strings
NonEmpty(piece) == piece # <<>>

tokenize(text) ==
  SelectSeq(splitWhitespace(toLowerCase(replaceSeparators(replaceCamelCase(text)))),
            NonEmpty)

matchesKeywords(tokens, keywords) ==
  \E i \in DOMAIN tokens : \E j \in DOMAIN keywords :
    \/ tokens[i] = keywords[j]
    \/ startsWith(tokens[i], keywords[j])
    \/ endsWith(tokens[i], keywords[j])

\* the tables tried least dangerous first
inferPermissionReadFirst(name, description) ==
  LET allTokens == tokenize(name)
        \o (IF description # NONE /\ description[1] # <<>>
            THEN tokenize(description[1]) ELSE <<>>)
  IN IF matchesKeywords(allTokens, READ_KEYWORDS) THEN "READ"
     ELSE IF matchesKeywords(allTokens, OUTPUT_KEYWORDS) THEN "OUTPUT"
     ELSE IF matchesKeywords(allTokens, WRITE_KEYWORDS) THEN "WRITE"
     ELSE IF matchesKeywords(allTokens, EXECUTE_KEYWORDS) THEN "EXECUTE"
     ELSE IF matchesKeywords(allTokens, DELETE_KEYWORDS) THEN "DELETE"
     ELSE "UNKNOWN"

\* description is optional: NONE models undefined; undefined and "" are falsy
\* a description, when given, classified in place of the name
inferPermissionDescriptionAlone(name, description) ==
  LET allTokens == IF description # NONE /\ description[1] # <<>>
                   THEN tokenize(description[1]) ELSE tokenize(name)
  IN IF matchesKeywords(allTokens, DELETE_KEYWORDS) THEN "DELETE"
     ELSE IF matchesKeywords(allTokens, EXECUTE_KEYWORDS) THEN "EXECUTE"
     ELSE IF matchesKeywords(allTokens, WRITE_KEYWORDS) THEN "WRITE"
     ELSE IF matchesKeywords(allTokens, OUTPUT_KEYWORDS) THEN "OUTPUT"
     ELSE IF matchesKeywords(allTokens, READ_KEYWORDS) THEN "READ"
     ELSE "UNKNOWN"

inferPermission(name, description) ==
  LET nameTokens == tokenize(name)
      descTokens == IF description # NONE /\ description[1] # <<>>
                    THEN tokenize(description[1]) ELSE <<>>
      allTokens == nameTokens \o descTokens
  IN IF matchesKeywords(allTokens, DELETE_KEYWORDS) THEN "DELETE"
     ELSE IF matchesKeywords(allTokens, EXECUTE_KEYWORDS) THEN "EXECUTE"
     ELSE IF matchesKeywords(allTokens, WRITE_KEYWORDS) THEN "WRITE"
     ELSE IF matchesKeywords(allTokens, OUTPUT_KEYWORDS) THEN "OUTPUT"
     ELSE IF matchesKeywords(allTokens, READ_KEYWORDS) THEN "READ"
     ELSE "UNKNOWN"

\* the table with an unclassified tool rated LOW
inferRiskUnknownLow(permission) ==
  IF permission = "UNKNOWN" THEN LOW ELSE PERMISSION_RISK_MAP[permission]

inferRisk(permission) == PERMISSION_RISK_MAP[permission]

inferPermissionAndRisk(name, description) ==
  LET permission == inferPermission(name, description)
  IN [permission |-> permission, risk |-> inferRisk(permission)]

\* EXECUTE left out of the high-risk permissions
isHighRiskDeleteOnly(permission) == permission = "DELETE"

isHighRisk(permission) == permission = "DELETE" \/ permission = "EXECUTE"

getKeywordsForPermission(permission) ==
  CASE permission = "READ" -> READ_KEYWORDS
    [] permission = "WRITE" -> WRITE_KEYWORDS
    [] permission = "DELETE" -> DELETE_KEYWORDS
    [] permission = "EXECUTE" -> EXECUTE_KEYWORDS
    [] permission = "OUTPUT" -> OUTPUT_KEYWORDS
    [] OTHER -> <<>>

-----------------------------------------------------------------------------
(* README.md, "Permission Inference": the documented keyword rows *)

README_TABLE ==
  << [keywords |-> << <<"g","e","t">>, <<"r","e","a","d">>, <<"f","e","t","c","h">>,
                      <<"l","i","s","t">>, <<"s","e","a","r","c","h">> >>,
      permission |-> "READ", risk |-> LOW],
     [keywords |-> << <<"c","r","e","a","t","e">>, <<"a","d","d">>, <<"w","r","i","t","e">>,
                      <<"u","p","d","a","t","e">>, <<"s","e","t">> >>,
      permission |-> "WRITE", risk |-> MEDIUM],
     [keywords |-> << <<"d","e","l","e","t","e">>, <<"r","e","m","o","v","e">>,
                      <<"d","r","o","p">>, <<"d","e","s","t","r","o","y">> >>,
      permission |-> "DELETE", risk |-> HIGH],
     [keywords |-> << <<"e","x","e","c","u","t","e">>, <<"r","u","n">>, <<"e","v","a","l">>,
                      <<"s","h","e","l","l">>, <<"e","x","e","c">> >>,
      permission |-> "EXECUTE", risk |-> HIGH],
     [keywords |-> << <<"d","i","s","p","l","a","y">>, <<"s","h","o","w">>,
                      <<"r","e","n","d","e","r">>, <<"o","u","t","p","u","t">> >>,
      permission |-> "OUTPUT", risk |-> LOW] >>

-----------------------------------------------------------------------------
(* output/manifest.ts *)

MANIFEST_VERSION == <<"1",".","0",".","0">>

\* String.prototype.localeCompare under the default (root) collation: first the
\* letters compared without case, punctuation before digits before letters;
\* only when those are all equal, lower case before upper case.
CollationOrder ==
  <<" ", "_", "-", ":", ".", "/">> \o Digits \o Lowers

PrimaryWeight(c) == IndexIn(CollationOrder, toLowerChar(c))

TertiaryWeight(c) == IF IsUpper(c) THEN 1 ELSE 0

\* the sign of the first difference of two weight sequences; a proper prefix
\* comes first
RECURSIVE compareWeights(_, _)
compareWeights(a, b) ==
  IF a = <<>> /\ b = <<>> THEN 0
  ELSE IF a = <<>> THEN -1
  ELSE IF b = <<>> THEN 1
  ELSE IF a[1] < b[1] THEN -1
  ELSE IF a[1] > b[1] THEN 1
  ELSE compareWeights(Tail(a), Tail(b))

localeCompare(a, b) ==
  LET primary == compareWeights([i \in DOMAIN a |-> PrimaryWeight(a[i])],
                                [i \in DOMAIN b |-> PrimaryWeight(b[i])])
  IN IF primary # 0 THEN primary
     ELSE compareWeights([i \in DOMAIN a |-> TertiaryWeight(a[i])],
                         [i \in DOMAIN b |-> TertiaryWeight(b[i])])

\* Array.prototype.sort with a consistent comparator, given as the table cmp of
\* the comparator's results on the positions of seq: stable, so an element
\* goes after those that compare before it and after the equal ones that
\* precede it in the input
sort(seq, cmp) ==
  LET n == Len(seq)
      rank(i) == 1 + Cardinality({j \in 1..n :
                       \/ cmp[j][i] < 0
                       \/ cmp[j][i] = 0 /\ j < i})
  IN [k \in 1..n |-> seq[CHOOSE i \in 1..n : rank(i) = k]]

\* the summary counts every tool, whatever its risk, as LOW
createSummaryAllLow(res, filesScanned) ==
  [total_tools |-> Len(res.tools),
   total_agents |-> Len(res.agents),
   total_mcp_servers |-> Len(res.mcpServers),
   files_scanned |-> filesScanned,
   by_framework |-> [f \in {t.framework : t \in Range(res.tools)} |->
                       Cardinality({i \in DOMAIN res.tools :
                                      res.tools[i].framework = f})],
   by_permission |-> [p \in Permissions |->
                       Cardinality({i \in DOMAIN res.tools :
                                      res.tools[i].permission = p})],
   by_risk |-> [r \in RiskLevels |-> IF r = LOW THEN Len(res.tools) ELSE 0]]

createSummary(res, filesScanned) ==
  LET tools == res.tools
      \* byFramework[tool.framework] = (byFramework[tool.framework] || 0) + 1
      byFramework == [f \in {t.framework : t \in Range(tools)} |->
                        Cardinality({i \in DOMAIN tools : tools[i].framework = f})]
      \* byPermission[tool.permission]++ from six zeroes
      byPermission == [p \in Permissions |->
                        Cardinality({i \in DOMAIN tools : tools[i].permission = p})]
      \* byRisk[tool.risk]++ from three zeroes
      byRisk == [r \in RiskLevels |->
                        Cardinality({i \in DOMAIN tools : tools[i].risk = r})]
  IN [total_tools |-> Len(tools),
      total_agents |-> Len(res.agents),
      total_mcp_servers |-> Len(res.mcpServers),
      files_scanned |-> filesScanned,
      by_framework |-> byFramework,
      by_permission |-> byPermission,
      by_risk |-> byRisk]

riskOrder(risk) ==
  CASE risk = HIGH -> 0
    [] risk = MEDIUM -> 1
    [] risk = LOW -> 2

\* the tools comparator with the risk order left out
compareToolsByNameOnly(a, b) == localeCompare(a.name, b.name)

compareTools(a, b) ==
  LET riskDiff == riskOrder(a.risk) - riskOrder(b.risk)
  IN IF riskDiff # 0 THEN riskDiff ELSE localeCompare(a.name, b.name)

compareNames(a, b) == localeCompare(a.name, b.name)

\* scanned_at (the clock) is left out: nothing reads it
createManifest(res, scannedPath, filesScanned, durationMs) ==
  [version |-> MANIFEST_VERSION,
   scanned_path |-> scannedPath,
   scan_duration_ms |-> durationMs,
   summary |-> createSummary(res, filesScanned),
   tools |-> sort(res.tools,
                   [i \in DOMAIN res.tools |-> [j \in DOMAIN res.tools |->
                      compareTools(res.tools[i], res.tools[j])]]),
   agents |-> sort(res.agents,
                   [i \in DOMAIN res.agents |-> [j \in DOMAIN res.agents |->
                      compareNames(res.agents[i], res.agents[j])]]),
   mcp_servers |-> sort(res.mcpServers,
                   [i \in DOMAIN res.mcpServers |-> [j \in DOMAIN res.mcpServers |->
                      compareNames(res.mcpServers[i], res.mcpServers[j])]])]

filterByFramework(tools, framework) ==
  LET Keep(t) == t.framework = framework IN SelectSeq(tools, Keep)

filterByRisk(tools, risk) ==
  LET Keep(t) == t.risk = risk IN SelectSeq(tools, Keep)

getHighRiskTools(tools) ==
  LET Keep(t) == t.risk = HIGH IN SelectSeq(tools, Keep)

\* const key = `${tool.name}:${tool.source}`
ToolKey(tool) == tool.name \o <<":">> \o tool.source

RECURSIVE deduplicateLoop(_, _, _)
deduplicateLoop(items, seen, unique) ==
  IF items = <<>> THEN unique
  ELSE LET key == ToolKey(Head(items))
       IN IF key \notin seen
          THEN deduplicateLoop(Tail(items), seen \cup {key}, Append(unique, Head(items)))
          ELSE deduplicateLoop(Tail(items), seen, unique)

\* the loop without seen.add(key): nothing is ever found in seen
deduplicateToolsNoSeenAdd(tools) == tools

\* the loop run from the end: of the tools of one key the last is kept
deduplicateToolsKeepLast(tools) ==
  LET Reverse(seq) == [i \in DOMAIN seq |-> seq[Len(seq) + 1 - i]]
  IN Reverse(deduplicateLoop(Reverse(tools), {}, <<>>))

deduplicateTools(tools) == deduplicateLoop(tools, {}, <<>>)

\* the same loop over agents, with the same key
deduplicateAgents(agents) == deduplicateLoop(agents, {}, <<>>)

RECURSIVE deduplicateServersLoop(_, _, _)
deduplicateServersLoop(servers, seen, unique) ==
  IF servers = <<>> THEN unique
  ELSE IF Head(servers).name \notin seen
    THEN deduplicateServersLoop(Tail(servers), seen \cup {Head(servers).name},
                                Append(unique, Head(servers)))
    ELSE deduplicateServersLoop(Tail(servers), seen, unique)

\* the servers keyed like tools, by name and source
deduplicateMcpServersByNameAndSource(servers) == deduplicateLoop(servers, {}, <<>>)

\* the loop run from the end: of the servers of one name the last is kept
deduplicateMcpServersKeepLast(servers) ==
  LET Reverse(seq) == [i \in DOMAIN seq |-> seq[Len(seq) + 1 - i]]
  IN Reverse(deduplicateServersLoop(Reverse(servers), {}, <<>>))

deduplicateMcpServers(servers) == deduplicateServersLoop(servers, {}, <<>>)

-----------------------------------------------------------------------------
(* detectors/base.ts *)

(***************************************************************************)
(* A file's content is a sequence of items, each the text of one           *)
(* declaration the detectors' patterns can match; a pattern is the set of  *)
(* items its regular expression matches, and a match offset is the         *)
(* position of the item.  Item kinds and the text they stand for:          *)
(*   py_import      from <module> import x                                 *)
(*   py_def         [<decorator>] def <name>(): ["""<doc>"""]              *)
(*   py_fastmcp     <inst> = FastMCP("x")                                  *)
(*   py_tool_array  TOOLS = [<names>]                                      *)
(*   py_tool_class  Tool(name="<name>")                                    *)
(*   py_crew_agent  Agent(role="<role>"[, tools=[<tools>]])                *)
(*   ts_import      import x from "<module>"                               *)
(*   ts_server_tool server.tool("<name>", {description: "<d>", ...})       *)
(*   ts_mcp_server  new McpServer({[name: "<name>"]})                      *)
(*   go_register    Register("<name>", h)                                  *)
(*   go_tool_func   func <funcName>(                                       *)
(*   go_import      import "x/<capabilities or another package>"           *)
(*   go_cap_type    var <prefix>Type [capabilities.]Type = "<name>"        *)
(*   go_cap_version var <prefix>Version capabilities.Version = "<version>" *)
(*   go_input       type <prefix>Input struct { <fields> }                 *)
(*   json           {"<key>": {<entries>}}, or text that is not JSON       *)
(*   text           anything else                                          *)
(***************************************************************************)

EmptyResult == [tools |-> <<>>, agents |-> <<>>, mcpServers |-> <<>>]

\* the lines an item takes: a decorator and a docstring have their own
Height(item) ==
  IF item.k = "py_def"
  THEN 1 + (IF item.decorator # "" THEN 1 ELSE 0) + (IF item.doc # NONE THEN 1 ELSE 0)
  ELSE 1

\* the newlines before the match, without the one added
RECURSIVE getLineNumberFromZero(_, _)
getLineNumberFromZero(content, index) ==
  IF index <= 1 THEN 0
  ELSE getLineNumberFromZero(content, index - 1) + Height(content[index - 1])

\* one plus the newlines before the match
RECURSIVE getLineNumber(_, _)
getLineNumber(content, index) ==
  IF index <= 1 THEN 1
  ELSE getLineNumber(content, index - 1) + Height(content[index - 1])

\* {...defaults, ...partial}
Spread(defaults, partial) ==
  [f \in DOMAIN defaults \cup DOMAIN partial |->
     IF f \in DOMAIN partial THEN partial[f] ELSE defaults[f]]

createTool(partial) ==
  Spread([framework |-> "unknown", permission |-> "UNKNOWN", risk |-> MEDIUM], partial)

createAgent(partial) == Spread([framework |-> "unknown", tools |-> <<>>], partial)

createMcpServer(partial) == partial

\* `${file.relativePath}:${line}`
SourceAt(file, line) == file.relativePath \o <<":">> \o ToDecimal(line)

-----------------------------------------------------------------------------
(* The patterns of the detectors, as predicates on items *)

\* detectors/python.ts: PATTERNS

PyToolDecorator(item) == item.k = "py_def" /\ item.decorator \in {"@tool", "@tool()"}

\* @(?:\w+\.)?(?:mcp\.)?tool\s*\([^)]*\) def: any call form, with or without prefix
PyMcpToolDecorator(item) ==
  item.k = "py_def" /\ item.decorator \in {"@tool()", "@mcp.tool()", "@app.tool()"}

PyFastMcpInstance(item) == item.k = "py_fastmcp"

\* the instance name X of the decorator @X.tool()
DecoratorInstance(decorator) ==
  CASE decorator = "@mcp.tool()" -> SOME("mcp")
    [] decorator = "@app.tool()" -> SOME("app")
    [] OTHER -> NONE

\* the pattern built per FastMCP instance: @<instance>.tool( ... ) def
PyFastMcpToolOf(instance, item) ==
  item.k = "py_def" /\ DecoratorInstance(item.decorator) = SOME(instance)

\* tools = [ ... ] also occurs inside an Agent(...) call
PyToolArray(item) ==
  \/ item.k = "py_tool_array"
  \/ item.k = "py_crew_agent" /\ item.tools # NONE

PyToolClass(item) == item.k = "py_tool_class"

PyCrewAiAgent(item) == item.k = "py_crew_agent"

PyFuncWithDocstring(item) == item.k = "py_def" /\ item.doc # NONE

PyMcpImport(item) == item.k = "py_import" /\ item.module \in {"mcp", "fastmcp"}

PyLangGraphImport(item) == item.k = "py_import" /\ item.module = "langgraph"

PyCrewAiImport(item) == item.k = "py_import" /\ item.module = "crewai"

PyAutoGenImport(item) == item.k = "py_import" /\ item.module = "autogen"

PyLangchainImport(item) == item.k = "py_import" /\ item.module = "langchain"

\* detectors/typescript.ts: PATTERNS

TsServerTool(item) == item.k = "ts_server_tool"

TsMcpServerClass(item) == item.k = "ts_mcp_server"

TsMcpImport(item) == item.k = "ts_import" /\ item.module = "mcp"

TsLangchainImport(item) == item.k = "ts_import" /\ item.module = "langchain"

\* detectors/go.ts: PATTERNS

GoToolRegister(item) == item.k = "go_register"

GoToolFunction(item) == item.k = "go_tool_func"

GoCapabilityType(item) == item.k = "go_cap_type"

GoCapabilityVersion(item) == item.k = "go_cap_version"

GoInputStruct(item) == item.k = "go_input"

GoCapabilitiesImport(item) == item.k = "go_import" /\ item.capabilities

\* whether the pattern of that name matches at an item; a name that is none of
\* PATTERNS is a FastMCP instance name, for the pattern built from it
PatternTest(pattern, item) ==
  CASE pattern = "py.toolDecorator" -> PyToolDecorator(item)
    [] pattern = "py.mcpToolDecorator" -> PyMcpToolDecorator(item)
    [] pattern = "py.fastMcpInstance" -> PyFastMcpInstance(item)
    [] pattern = "py.toolArray" -> PyToolArray(item)
    [] pattern = "py.toolClass" -> PyToolClass(item)
    [] pattern = "py.crewAiAgent" -> PyCrewAiAgent(item)
    [] pattern = "py.funcWithDocstring" -> PyFuncWithDocstring(item)
    [] pattern = "py.mcpImport" -> PyMcpImport(item)
    [] pattern = "py.langGraphImport" -> PyLangGraphImport(item)
    [] pattern = "py.crewAiImport" -> PyCrewAiImport(item)
    [] pattern = "py.autoGenImport" -> PyAutoGenImport(item)
    [] pattern = "py.langchainImport" -> PyLangchainImport(item)
    [] pattern = "ts.serverTool" -> TsServerTool(item)
    [] pattern = "ts.mcpServerClass" -> TsMcpServerClass(item)
    [] pattern = "ts.mcpImport" -> TsMcpImport(item)
    [] pattern = "ts.langchainImport" -> TsLangchainImport(item)
    [] pattern = "go.toolRegister" -> GoToolRegister(item)
    [] pattern = "go.toolFunction" -> GoToolFunction(item)
    [] pattern = "go.capabilityType" -> GoCapabilityType(item)
    [] pattern = "go.capabilityVersion" -> GoCapabilityVersion(item)
    [] pattern = "go.inputStruct" -> GoInputStruct(item)
    [] pattern = "go.capabilitiesImport" -> GoCapabilitiesImport(item)
    [] OTHER -> PyFastMcpToolOf(pattern, item)

\* the positions of the items that a pattern matches, in order
Matches(content, pattern) ==
  SubseqAt([i \in DOMAIN content |-> i],
           {i \in DOMAIN content : PatternTest(pattern, content[i])})

\* RegExp.prototype.test of a pattern with the g flag: the search starts at the
\* pattern's lastIndex and leaves it after the match, or at 0 when none is found
regexTest(content, pattern, lastIndex) ==
  LET found == {i \in DOMAIN content : i > lastIndex /\ PatternTest(pattern, content[i])}
  IN IF found = {} THEN [found |-> FALSE, lastIndex |-> 0]
     ELSE [found |-> TRUE, lastIndex |-> Min(found)]

-----------------------------------------------------------------------------
(* detectors/python.ts *)

\* the five shared patterns are tested in turn, each from its own lastIndex;
\* the first that matches decides, the later ones are not tested
PyDetectFramework(content, lastIndex) ==
  LET mcp == regexTest(content, "py.mcpImport", lastIndex.mcpImport)
      langGraph == regexTest(content, "py.langGraphImport", lastIndex.langGraphImport)
      crewAi == regexTest(content, "py.crewAiImport", lastIndex.crewAiImport)
      autoGen == regexTest(content, "py.autoGenImport", lastIndex.autoGenImport)
      langchain == regexTest(content, "py.langchainImport", lastIndex.langchainImport)
      l1 == [lastIndex EXCEPT !.mcpImport = mcp.lastIndex]
      l2 == [l1 EXCEPT !.langGraphImport = langGraph.lastIndex]
      l3 == [l2 EXCEPT !.crewAiImport = crewAi.lastIndex]
      l4 == [l3 EXCEPT !.autoGenImport = autoGen.lastIndex]
      l5 == [l4 EXCEPT !.langchainImport = langchain.lastIndex]
  IN IF mcp.found THEN [framework |-> "mcp", lastIndex |-> l1]
     ELSE IF langGraph.found THEN [framework |-> "langraph", lastIndex |-> l2]
     ELSE IF crewAi.found THEN [framework |-> "crewai", lastIndex |-> l3]
     ELSE IF autoGen.found THEN [framework |-> "autogen", lastIndex |-> l4]
     ELSE IF langchain.found THEN [framework |-> "custom", lastIndex |-> l5]
     ELSE [framework |-> "unknown", lastIndex |-> l5]

\* the table is cleared, then filled in match order: a later function of the
\* same name overwrites; a docstring that trims to nothing sets nothing
PyExtractDocstrings(content) ==
  LET Documented(item) == PyFuncWithDocstring(item) /\ trim(item.doc[1]) # <<>>
      hits == {i \in DOMAIN content : Documented(content[i])}
      last(name) == CHOOSE i \in hits :
                      /\ content[i].name = name
                      /\ \A j \in hits : content[j].name = name => j <= i
  IN [name \in {content[i].name : i \in hits} |->
        trim(firstPiece(trim(content[last(name)].doc[1]), "\n"))]

PyCreateToolFromName(name, file, line, framework, docstrings) ==
  LET description == IF name \in DOMAIN docstrings THEN SOME(docstrings[name]) ELSE NONE
      permission == inferPermission(name, description)
      risk == inferRisk(permission)
  IN createTool([name |-> name, source |-> SourceAt(file, line), line |-> line,
                 framework |-> framework, permission |-> permission, risk |-> risk,
                 description |-> description])

\* one tool per match of the pattern, tagged with the framework
PyToolsOf(file, pattern, framework, docstrings) ==
  LET hits == Matches(file.content, pattern)
  IN [k \in DOMAIN hits |->
        PyCreateToolFromName(file.content[hits[k]].name, file,
                             getLineNumber(file.content, hits[k]), framework, docstrings)]

PyDetectToolDecorators(file, docstrings) ==
  PyToolsOf(file, "py.toolDecorator", "custom", docstrings)
    \o PyToolsOf(file, "py.mcpToolDecorator", "mcp", docstrings)

\* the pass in one sweep: a decorator counts only after the binding of its
\* instance
PyDetectFastMcpToolsAfterBinding(file, docstrings) ==
  LET binds == Matches(file.content, "py.fastMcpInstance")
      ToolsOfBinding(b) ==
        LET hits == SelectSeq(Matches(file.content, file.content[b].inst),
                              LAMBDA i : i > b)
        IN [k \in DOMAIN hits |->
              PyCreateToolFromName(file.content[hits[k]].name, file,
                                   getLineNumber(file.content, hits[k]), "fastmcp",
                                   docstrings)]
  IN Flatten([k \in DOMAIN binds |-> ToolsOfBinding(binds[k])])

\* first every bound instance name, in binding order; then, per name, the
\* decorators qualified by it
PyDetectFastMcpTools(file, docstrings) ==
  LET binds == Matches(file.content, "py.fastMcpInstance")
      instances == [k \in DOMAIN binds |-> file.content[binds[k]].inst]
      \* new RegExp(`@${instance}\\.tool...`)
      ToolsOfInstance(instance) == PyToolsOf(file, instance, "fastmcp", docstrings)
  IN Flatten([k \in DOMAIN instances |-> ToolsOfInstance(instances[k])])

PySkippedTokens ==
  {<<"T","r","u","e">>, <<"F","a","l","s","e">>, <<"N","o","n","e">>, <<"a","n","d">>, <<"o","r">>, <<"n","o","t">>, <<"i","f">>, <<"e","l","s","e">>}

\* the names listed in the bracket of an array item
ArrayNames(item) == IF item.k = "py_crew_agent" THEN item.tools[1] ELSE item.names

PyDetectToolCollections(file, framework, docstrings) ==
  LET content == file.content
      arrays == Matches(content, "py.toolArray")
      ToolsOfArray(i) ==
        LET Kept(name) == name \notin PySkippedTokens
            funcNames == SelectSeq(ArrayNames(content[i]), Kept)
        IN [k \in DOMAIN funcNames |->
              PyCreateToolFromName(funcNames[k], file, getLineNumber(content, i),
                                   framework, docstrings)]
  IN Flatten([k \in DOMAIN arrays |-> ToolsOfArray(arrays[k])])
       \o PyToolsOf(file, "py.toolClass", framework, docstrings)

PyDetectCrewAiAgents(file) ==
  LET content == file.content
      hits == Matches(content, "py.crewAiAgent")
      AgentAt(i) ==
        LET line == getLineNumber(content, i)
        IN createAgent([name |-> content[i].role, source |-> SourceAt(file, line),
                        line |-> line, framework |-> "crewai",
                        tools |-> IF content[i].tools # NONE THEN content[i].tools[1]
                                  ELSE <<>>,
                        description |-> SOME(<<"C","r","e","w","A","I"," ","a","g","e","n","t"," ","w","i","t","h"," ","r","o","l","e",":"," ">> \o content[i].role)])
  IN [k \in DOMAIN hits |-> AgentAt(hits[k])]

\* detect: the batch, and the instance fields and pattern offsets it leaves
\* detect without docstrings.clear(): the table of the earlier files stays
\* under the entries of this one
PythonDetectKeepDocstrings(file, state) ==
  LET detected == PyDetectFramework(file.content, state.lastIndex)
      extracted == PyExtractDocstrings(file.content)
      docstrings == [name \in DOMAIN state.docstrings \cup DOMAIN extracted |->
                       IF name \in DOMAIN extracted THEN extracted[name]
                       ELSE state.docstrings[name]]
  IN [batch |->
        [tools |-> PyDetectToolDecorators(file, docstrings)
                     \o PyDetectFastMcpTools(file, docstrings)
                     \o PyDetectToolCollections(file, detected.framework, docstrings),
         agents |-> PyDetectCrewAiAgents(file),
         mcpServers |-> <<>>],
      state |-> [docstrings |-> docstrings,
                 detectedFramework |-> detected.framework,
                 lastIndex |-> detected.lastIndex]]

PythonDetect(file, state) ==
  LET detected == PyDetectFramework(file.content, state.lastIndex)
      docstrings == PyExtractDocstrings(file.content)
  IN [batch |->
        [tools |-> PyDetectToolDecorators(file, docstrings)
                     \o PyDetectFastMcpTools(file, docstrings)
                     \o PyDetectToolCollections(file, detected.framework, docstrings),
         agents |-> PyDetectCrewAiAgents(file),
         mcpServers |-> <<>>],
      state |-> [docstrings |-> docstrings,
                 detectedFramework |-> detected.framework,
                 lastIndex |-> detected.lastIndex]]

-----------------------------------------------------------------------------
(* detectors/typescript.ts *)

TsDetectFramework(content, lastIndex) ==
  LET mcp == regexTest(content, "ts.mcpImport", lastIndex.mcpImport)
      langchain == regexTest(content, "ts.langchainImport", lastIndex.langchainImport)
      l1 == [lastIndex EXCEPT !.mcpImport = mcp.lastIndex]
      l2 == [l1 EXCEPT !.langchainImport = langchain.lastIndex]
  IN IF mcp.found THEN [framework |-> "mcp", lastIndex |-> l1]
     ELSE IF langchain.found THEN [framework |-> "custom", lastIndex |-> l2]
     ELSE [framework |-> "unknown", lastIndex |-> l2]

TsCreateToolFromName(name, file, line, framework, description) ==
  LET permission == inferPermission(name, description)
      risk == inferRisk(permission)
  IN createTool([name |-> name, source |-> SourceAt(file, line), line |-> line,
                 framework |-> framework, permission |-> permission, risk |-> risk,
                 description |-> description])

\* the text of one match of /description\s*:\s*["'`]([^"'`]+)["'`]/
DescriptionField(value) == <<"d","e","s","c","r","i","p","t","i","o","n",":"," ">> \o <<"\"">> \o value \o <<"\"">>

\* nearbyContent.match(PATTERNS.toolDescription), the pattern having the g
\* flag: the array of the whole matches, without groups; [1] is the second
TsNearbyDescription(item) ==
  IF Len(item.descriptions) >= 2 THEN SOME(DescriptionField(item.descriptions[2]))
  ELSE NONE

TsDetectServerTools(file) ==
  LET content == file.content
      hits == Matches(content, "ts.serverTool")
  IN [k \in DOMAIN hits |->
        TsCreateToolFromName(content[hits[k]].name, file,
                             getLineNumber(content, hits[k]), "mcp",
                             TsNearbyDescription(content[hits[k]]))]

TsDetectMcpServers(file) ==
  LET content == file.content
      hits == Matches(content, "ts.mcpServerClass")
      ServerAt(i) ==
        LET line == getLineNumber(content, i)
        IN createMcpServer(
             [name |-> IF content[i].name # NONE THEN content[i].name[1]
                       ELSE <<"m","c","p","-","s","e","r","v","e","r","-">> \o ToDecimal(line),
              command |-> <<"t","y","p","e","s","c","r","i","p","t">>,
              source |-> SourceAt(file, line)])
  IN [k \in DOMAIN hits |-> ServerAt(hits[k])]

TypeScriptDetect(file, state) ==
  LET detected == TsDetectFramework(file.content, state.lastIndex)
  IN [batch |-> [tools |-> TsDetectServerTools(file),
                 agents |-> <<>>,
                 mcpServers |-> TsDetectMcpServers(file)],
      state |-> [detectedFramework |-> detected.framework,
                 lastIndex |-> detected.lastIndex]]

-----------------------------------------------------------------------------
(* detectors/go.ts *)

\* s.replace(/suffix$/, '')
stripSuffix(s, suffix) ==
  IF endsWith(s, suffix) THEN SubSeq(s, 1, Len(s) - Len(suffix)) ELSE s

\* .replace(/([a-z])([A-Z])/g, '$1_$2')
RECURSIVE camelToSnake(_)
camelToSnake(s) ==
  IF Len(s) < 2 THEN s
  ELSE IF IsLower(s[1]) /\ IsUpper(s[2])
    THEN <<s[1], "_", s[2]>> \o camelToSnake(SubSeq(s, 3, Len(s)))
    ELSE <<s[1]>> \o camelToSnake(Tail(s))

GoToolNameOf(funcName) ==
  toLowerCase(camelToSnake(
    stripSuffix(stripSuffix(stripSuffix(funcName, <<"T","o","o","l">>), <<"H","a","n","d","l","e","r">>), <<"C","a","p","a","b","i","l","i","t","y">>)))

GoCreateTool(name, file, line) ==
  LET permission == inferPermission(name, NONE)
      risk == inferRisk(permission)
  IN createTool([name |-> name, source |-> SourceAt(file, line), line |-> line,
                 framework |-> "custom", permission |-> permission, risk |-> risk])

\* the registrations in order, each skipped when the batch so far already has
\* a tool of its name
RECURSIVE GoDetectToolRegistrations(_, _, _)
GoDetectToolRegistrations(file, hits, tools) ==
  IF hits = <<>> THEN tools
  ELSE LET toolName == file.content[Head(hits)].name
           alreadyDetected == \E i \in DOMAIN tools : tools[i].name = toolName
       IN GoDetectToolRegistrations(file, Tail(hits),
            IF alreadyDetected THEN tools
            ELSE Append(tools, GoCreateTool(toolName, file,
                                            getLineNumber(file.content, Head(hits)))))

RECURSIVE GoDetectToolFunctions(_, _, _)
GoDetectToolFunctions(file, hits, tools) ==
  IF hits = <<>> THEN tools
  ELSE LET funcName == file.content[Head(hits)].funcName
           toolName == GoToolNameOf(funcName)
           alreadyDetected == \E i \in DOMAIN tools :
                                tools[i].name = toolName \/ tools[i].name = funcName
       IN GoDetectToolFunctions(file, Tail(hits),
            IF alreadyDetected THEN tools
            ELSE Append(tools, GoCreateTool(toolName, file,
                                            getLineNumber(file.content, Head(hits)))))

\* the Go types that \w+ of PATTERNS.structField can match
GoWordTypes == {"string", "int", "int32", "int64", "float32", "float64", "bool", "Custom"}

mapGoTypeToJsonType(goType) ==
  CASE goType = "string" -> "string"
    [] goType \in {"int", "int32", "int64"} -> "integer"
    [] goType \in {"float32", "float64"} -> "number"
    [] goType = "bool" -> "boolean"
    [] goType = "interface{}" -> "any"
    [] goType = "map[string]interface{}" -> "object"
    [] goType \in {"[]string", "[]int"} -> "array"
    [] OTHER -> "string"

\* the struct body that ([^}]*) of PATTERNS.inputStruct captures: the fields
\* before the first whose type holds a '}'
RECURSIVE StructBody(_)
StructBody(fields) ==
  IF fields = <<>> \/ Head(fields).type \in {"interface{}", "map[string]interface{}"}
  THEN <<>>
  ELSE <<Head(fields)>> \o StructBody(Tail(fields))

\* fields[jsonName] = {type, description: fieldName} per match of
\* PATTERNS.structField, a later match of a json name overwriting
parseStructFields(structBody) ==
  LET matched == {i \in DOMAIN structBody : structBody[i].type \in GoWordTypes}
      last(json) == Max({i \in matched : structBody[i].json = json})
  IN [json \in {structBody[i].json : i \in matched} |->
        [type |-> mapGoTypeToJsonType(structBody[last(json)].type),
         description |-> structBody[last(json)].fieldName]]

\* the declarations read in one pass, in their order in the text: a Version
\* or an Input struct counts only after the Type of its prefix
GoDetectCapabilitiesOnePass(file) ==
  LET content == file.content
      types == Matches(content, "go.capabilityType")
      IsFirst(i) == \A j \in Range(types) : content[j].prefix = content[i].prefix => i <= j
      firsts == SelectSeq(types, IsFirst)
      ToolOf(i) ==
        LET prefix == content[i].prefix
            declared == Max({j \in Range(types) : content[j].prefix = prefix})
            versions == {j \in Range(Matches(content, "go.capabilityVersion")) :
                           content[j].prefix = prefix /\ j > i}
            inputs == {j \in Range(Matches(content, "go.inputStruct")) :
                         content[j].prefix = prefix /\ j > i}
            line == getLineNumber(content, declared)
            permission == inferPermission(content[declared].name, NONE)
        IN createTool(
             [name |-> content[declared].name, source |-> SourceAt(file, line),
              line |-> line, framework |-> "custom", permission |-> permission,
              risk |-> inferRisk(permission),
              version |-> IF versions = {} THEN NONE
                          ELSE SOME(content[Max(versions)].version),
              parameters |-> IF inputs = {} THEN NONE
                             ELSE SOME(parseStructFields(
                                         StructBody(content[Max(inputs)].fields)))])
  IN [k \in DOMAIN firsts |-> ToolOf(firsts[k])]

\* detectCapabilities: the Map keeps a prefix at the place of its first Type
\* declaration with the name and line of its last; then every Version and
\* every Input struct of a prefix in the Map is written into its entry, the
\* last of each staying; then one tool per entry
GoDetectCapabilities(file) ==
  LET content == file.content
      types == Matches(content, "go.capabilityType")
      IsFirst(i) == \A j \in Range(types) : content[j].prefix = content[i].prefix => i <= j
      firsts == SelectSeq(types, IsFirst)
      ToolOf(i) ==
        LET prefix == content[i].prefix
            declared == Max({j \in Range(types) : content[j].prefix = prefix})
            versions == {j \in Range(Matches(content, "go.capabilityVersion")) :
                           content[j].prefix = prefix}
            inputs == {j \in Range(Matches(content, "go.inputStruct")) :
                         content[j].prefix = prefix}
            line == getLineNumber(content, declared)
            permission == inferPermission(content[declared].name, NONE)
        IN createTool(
             [name |-> content[declared].name, source |-> SourceAt(file, line),
              line |-> line, framework |-> "custom", permission |-> permission,
              risk |-> inferRisk(permission),
              version |-> IF versions = {} THEN NONE
                          ELSE SOME(content[Max(versions)].version),
              parameters |-> IF inputs = {} THEN NONE
                             ELSE SOME(parseStructFields(
                                         StructBody(content[Max(inputs)].fields)))])
  IN [k \in DOMAIN firsts |-> ToolOf(firsts[k])]

\* usesCapabilities: the shared /g import pattern tested from its lastIndex,
\* then (only if that fails) the two includes
GoUsesCapabilities(content, lastIndex) ==
  LET import == regexTest(content, "go.capabilitiesImport", lastIndex.capabilitiesImport)
  IN [uses |-> \/ import.found
               \/ \E i \in DOMAIN content :
                    content[i].k = "go_cap_type" /\ content[i].qualified,
      lastIndex |-> [lastIndex EXCEPT !.capabilitiesImport = import.lastIndex]]

GoDetect(file, state) ==
  LET gate == GoUsesCapabilities(file.content, state.lastIndex)
      capabilities == IF gate.uses THEN GoDetectCapabilities(file) ELSE <<>>
      registered == GoDetectToolRegistrations(file, Matches(file.content, "go.toolRegister"),
                                              capabilities)
  IN [batch |-> [tools |-> GoDetectToolFunctions(file,
                                                 Matches(file.content, "go.toolFunction"),
                                                 registered),
                 agents |-> <<>>,
                 mcpServers |-> <<>>],
      state |-> [lastIndex |-> gate.lastIndex]]
-----------------------------------------------------------------------------
(* detectors/mcp-config.ts *)

(***************************************************************************)
(* The one item of a .json file is the text of a JSON value, or text that  *)
(* is no JSON:                                                             *)
(*   valid    whether JSON.parse accepts the text                          *)
(*   top      what it parses to: "object", "array", "number" or "null"     *)
(*   key      the one property of a top-level object (also the word the    *)
(*            text holds when it is no JSON)                               *)
(*   map      what the property's value is: "object", "array", "string",   *)
(*            "number" or "null"                                           *)
(*   entries  the members of that value: the properties of an object, the  *)
(*            elements of an array, the characters of a string             *)
(* and each entry has a name (the property's key; unused for an element),  *)
(* the kind of its value ("object", "array", "string" or "null") and, for  *)
(* an object, its command, url, args and env.                              *)
(***************************************************************************)

MCP_CONFIG_FILES == {<<"m","c","p","_","s","e","t","t","i","n","g","s",".","j","s","o","n">>, <<"m","c","p",".","j","s","o","n">>, <<"c","l","a","u","d","e","_","d","e","s","k","t","o","p","_","c","o","n","f","i","g",".","j","s","o","n">>}

\* /\.cursor[/\\]mcp\.json$/, /mcp[_-]?settings\.json$/i, /mcp[_-]?config\.json$/i
MatchesMcpPathPattern(relativePath) ==
  LET lower == toLowerCase(relativePath)
  IN \/ endsWith(relativePath, <<".","c","u","r","s","o","r","/","m","c","p",".","j","s","o","n">>)
     \/ \E sep \in {<<>>, <<"_">>, <<"-">>} :
          \/ endsWith(lower, <<"m","c","p">> \o sep \o <<"s","e","t","t","i","n","g","s",".","j","s","o","n">>)
          \/ endsWith(lower, <<"m","c","p">> \o sep \o <<"c","o","n","f","i","g",".","j","s","o","n">>)

\* the one item of a JSON file
JsonOf(file) == file.content[1]

\* content.includes('mcpServers'), or '"servers"' and '"command"' both: a test
\* of the text, whether it parses or not
LooksLikeMcpConfig(json) ==
  \/ json.key = "mcpServers"
  \/ json.key = "servers" /\ \E i \in DOMAIN json.entries : json.entries[i].command # NONE

\* every .json file taken for a configuration file
isMcpConfigFileAlways(file) == file.extension = <<".","j","s","o","n">>

isMcpConfigFile(file) ==
  \/ lastPiece(file.relativePath, "/") \in MCP_CONFIG_FILES
  \/ MatchesMcpPathPattern(file.relativePath)
  \/ LooksLikeMcpConfig(JsonOf(file))

\* the url taken before the command
parseServerConfigUrlFirst(name, config, file) ==
  IF config.url # NONE /\ config.url[1] # <<>>
  THEN SOME(createMcpServer([name |-> name, command |-> config.url[1],
                             source |-> file.relativePath]))
  ELSE IF config.command # NONE /\ config.command[1] # <<>>
  THEN SOME(createMcpServer([name |-> name, command |-> config.command[1],
                             args |-> config.args, env |-> config.env,
                             source |-> file.relativePath]))
  ELSE NONE

\* a server of an entry with a (truthy) command, else with a url, else none
parseServerConfig(name, config, file) ==
  IF config.command # NONE /\ config.command[1] # <<>>
  THEN SOME(createMcpServer([name |-> name, command |-> config.command[1],
                             args |-> config.args, env |-> config.env,
                             source |-> file.relativePath]))
  ELSE IF config.url # NONE /\ config.url[1] # <<>>
  THEN SOME(createMcpServer([name |-> name, command |-> config.url[1],
                             source |-> file.relativePath]))
  ELSE NONE

\* whether JSON.parse(file.content), or the read of a property of its value,
\* throws: text that is no JSON, or the value null
ParseThrows(json) == ~json.valid \/ json.top = "null"

\* Object.entries(config.mcpServers || config.servers || {}): the properties of
\* an object under their keys, the elements of an array and the characters of
\* a string under their indices, nothing of a number or of null
ObjectEntries(json) ==
  IF json.top # "object" \/ json.key \notin {"mcpServers", "servers"} THEN <<>>
  ELSE IF json.map = "object" THEN json.entries
  ELSE IF json.map \in {"array", "string"}
    THEN [i \in DOMAIN json.entries |->
            [json.entries[i] EXCEPT !.name = ToDecimal(i - 1)]]
  ELSE <<>>

\* !serverConfig || typeof serverConfig !== 'object': an array is an object
SkippedEntry(entry) == entry.kind \notin {"object", "array"}

McpConfigDetect(file) ==
  LET json == JsonOf(file)
      Kept(entry) == ~SkippedEntry(entry)
      servers == SelectSeq(ObjectEntries(json), Kept)
  IN IF ~isMcpConfigFile(file) \/ ParseThrows(json) THEN EmptyResult
     ELSE [tools |-> <<>>,
           agents |-> <<>>,
           mcpServers |->
             Flatten([k \in DOMAIN servers |->
                        parseServerConfig(servers[k].name, servers[k], file)])]

-----------------------------------------------------------------------------
(* scanner/router.ts and scanner/walker.ts *)

\* path.extname: from the last '.' of the last path segment; none for a
\* segment without '.' or with its only '.' in front
extname(path) ==
  LET base == lastPiece(path, "/")
      dots == {i \in DOMAIN base : base[i] = "."}
  IN IF dots = {} \/ Max(dots) = 1 THEN <<>>
     ELSE SubSeq(base, Max(dots), Len(base))

\* a FileInfo as walkDirectory builds it (the absolute path, which no detector
\* reads, is left out)
FileInfo(relativePath, content) ==
  [relativePath |-> relativePath, extension |-> extname(relativePath),
   content |-> content]

\* register without the normalisation: the extension is stored as given
RECURSIVE registerAsGiven(_, _, _)
registerAsGiven(map, detector, extensions) ==
  IF extensions = <<>> THEN map
  ELSE LET ext == Head(extensions)
           existing == IF ext \in DOMAIN map THEN map[ext] ELSE <<>>
           added == [e \in DOMAIN map \cup {ext} |->
                       IF e = ext THEN Append(existing, detector) ELSE map[e]]
       IN registerAsGiven(added, detector, Tail(extensions))

\* register: the detector is appended to the list of each extension, the
\* extension given a leading '.' if it has none
RECURSIVE register(_, _, _)
register(map, detector, extensions) ==
  IF extensions = <<>> THEN map
  ELSE LET ext == Head(extensions)
           normalizedExt == IF startsWith(ext, <<".">>) THEN ext ELSE <<".">> \o ext
           existing == IF normalizedExt \in DOMAIN map THEN map[normalizedExt] ELSE <<>>
           added == [e \in DOMAIN map \cup {normalizedExt} |->
                       IF e = normalizedExt THEN Append(existing, detector) ELSE map[e]]
       IN register(added, detector, Tail(extensions))

\* createRouter of commands/scan.ts: the four detectors with their extensions
createRouter ==
  register(
    register(
      register(
        register(<<>>, "mcp-config", <<<<".","j","s","o","n">>>>),
        "python", <<<<".","p","y">>>>),
      "typescript", <<<<".","t","s">>, <<".","t","s","x">>, <<".","j","s">>, <<".","j","s","x">>, <<".","m","j","s">>>>),
    "go", <<<<".","g","o">>>>)

\* no detector is registered globally
getDetectorsForFile(router, file) ==
  IF file.extension \in DOMAIN router THEN router[file.extension] ELSE <<>>

\* detector.detect(file): the batch and the detectors' state after it
Detect(detector, file, state) ==
  CASE detector = "mcp-config" -> [batch |-> McpConfigDetect(file), state |-> state]
    [] detector = "python" ->
         LET r == PythonDetect(file, state.python)
         IN [batch |-> r.batch, state |-> [state EXCEPT !.python = r.state]]
    [] detector = "typescript" ->
         LET r == TypeScriptDetect(file, state.typescript)
         IN [batch |-> r.batch, state |-> [state EXCEPT !.typescript = r.state]]
    [] detector = "go" ->
         LET r == GoDetect(file, state.go)
         IN [batch |-> r.batch, state |-> [state EXCEPT !.go = r.state]]

Concat(a, b) ==
  [tools |-> a.tools \o b.tools, agents |-> a.agents \o b.agents,
   mcpServers |-> a.mcpServers \o b.mcpServers]

\* the loop without its try/catch: the first throw ends the file's processing
RECURSIVE processFileLoopNoCatch(_, _, _, _, _)
processFileLoopNoCatch(detectorList, file, acc, state, throwing) ==
  IF Len(acc.calls) = Len(detectorList) THEN [acc EXCEPT !.state = state]
  ELSE LET position == Len(acc.calls) + 1
           detector == detectorList[position]
           called == [acc EXCEPT !.calls = Append(@, detector)]
       IN IF position \in throwing
          THEN [called EXCEPT !.state = state, !.errors = Append(@, detector)]
          ELSE LET r == Detect(detector, file, state)
               IN processFileLoopNoCatch(detectorList, file,
                                         [called EXCEPT !.result = Concat(@, r.batch)],
                                         r.state, throwing)

\* the loop of processFile over the detectors of the file.  throwing holds the
\* positions in that list whose detect(file) throws: the catch logs the
\* detector's name and the loop goes on.  (A detector that throws is taken to
\* throw before it has touched its fields.)
RECURSIVE processFileLoop(_, _, _, _, _)
processFileLoop(detectorList, file, acc, state, throwing) ==
  IF Len(acc.calls) = Len(detectorList) THEN [acc EXCEPT !.state = state]
  ELSE LET position == Len(acc.calls) + 1
           detector == detectorList[position]
           called == [acc EXCEPT !.calls = Append(@, detector)]
       IN IF position \in throwing
          THEN processFileLoop(detectorList, file,
                               [called EXCEPT !.errors = Append(@, detector)],
                               state, throwing)
          ELSE LET r == Detect(detector, file, state)
               IN processFileLoop(detectorList, file,
                                  [called EXCEPT !.result = Concat(@, r.batch)],
                                  r.state, throwing)

\* result: what processFile returns; state: the detectors' fields after it;
\* calls: the detectors whose detect was called, in order; errors: those the
\* catch logged
processFile(router, file, state, throwing) ==
  processFileLoop(getDetectorsForFile(router, file), file,
                  [result |-> EmptyResult, state |-> state, calls |-> <<>>,
                   errors |-> <<>>],
                  state, throwing)

-----------------------------------------------------------------------------
(* scanner/walker.ts *)

ALL_EXTENSIONS == {<<".","j","s","o","n">>, <<".","p","y">>, <<".","t","s">>, <<".","t","s","x">>, <<".","j","s">>, <<".","j","s","x">>, <<".","m","j","s">>} \cup {<<".","g","o">>}

\* the directories of DEFAULT_IGNORE ('**/<dir>/**') and its file suffixes
\* ('**/*<suffix>')
DEFAULT_IGNORE ==
  [dirs |-> {<<"n","o","d","e","_","m","o","d","u","l","e","s">>, <<".","g","i","t">>, <<"d","i","s","t">>, <<"b","u","i","l","d">>, <<"_","_","p","y","c","a","c","h","e","_","_">>, <<".","v","e","n","v">>, <<"v","e","n","v">>,
             <<".","e","n","v">>, <<"e","n","v">>, <<"c","o","v","e","r","a","g","e">>, <<".","n","e","x","t">>, <<".","n","u","x","t">>, <<"v","e","n","d","o","r">>},
   suffixes |-> {<<".","m","i","n",".","j","s">>, <<".","b","u","n","d","l","e",".","j","s">>}]

\* a regular file of the tree, its text, and whether readFile succeeds on it
OnDisk(relativePath, content, readable) ==
  [relativePath |-> relativePath, content |-> content, readable |-> readable]

\* path.split('/')
RECURSIVE Segments(_)
Segments(path) ==
  IF \E i \in DOMAIN path : path[i] = "/"
  THEN <<firstPiece(path, "/")>>
         \o Segments(SubSeq(path, Len(firstPiece(path, "/")) + 2, Len(path)))
  ELSE <<path>>

\* the directories a path lies under
Directories(path) == {Segments(path)[i] : i \in 1..(Len(Segments(path)) - 1)}

\* ignore: allIgnorePatterns, with no ignorePatterns option given
BaselineIgnored(relativePath) ==
  \/ Directories(relativePath) \cap DEFAULT_IGNORE.dirs # {}
  \/ \E suffix \in DEFAULT_IGNORE.suffixes :
       /\ endsWith(relativePath, suffix)
       /\ Len(lastPiece(relativePath, "/")) > Len(suffix)

\* dot: false, under which no pattern matches a segment that begins with '.'
Hidden(relativePath) == \E s \in Range(Segments(relativePath)) : startsWith(s, <<".">>)

\* the patterns '**/*<ext>' of the extensions
MatchesExtension(relativePath) ==
  \E ext \in ALL_EXTENSIONS :
    /\ endsWith(relativePath, ext)
    /\ Len(lastPiece(relativePath, "/")) >= Len(ext)

\* fg(extensionPatterns, {ignore, dot: false, onlyFiles: true}): the regular
\* files of the tree that a pattern matches, in the order the tree is walked
fg(tree) ==
  LET Found(entry) == /\ MatchesExtension(entry.relativePath)
                      /\ ~Hidden(entry.relativePath)
                      /\ ~BaselineIgnored(entry.relativePath)
  IN SelectSeq(tree, Found)

\* ig.add(gitignoreContent) after readFile, or nothing when readFile rejects:
\* the rules are plain names, each matching a file or a directory of that name
\* at any depth
LoadGitignore(gitignore) == IF gitignore.state = "present" THEN gitignore.rules ELSE {}

\* ig.ignores(relativePath)
ignores(rules, relativePath) == Range(Segments(relativePath)) \cap rules # {}

\* the read loop with the catch left out: the walk rejects at the first file
\* whose read rejects
walkDirectoryReadOrFail(tree, gitignore) ==
  LET rules == LoadGitignore(gitignore)
      Wanted(entry) == ~ignores(rules, entry.relativePath)
      wanted == SelectSeq(fg(tree), Wanted)
  IN IF \E i \in DOMAIN wanted : ~wanted[i].readable
     THEN [threw |-> TRUE, files |-> <<>>]
     ELSE [threw |-> FALSE,
           files |-> [i \in DOMAIN wanted |->
                        FileInfo(wanted[i].relativePath, wanted[i].content)]]

\* walkDirectory(rootPath): the found files that .gitignore does not ignore
\* and whose read succeeds, each with its content
walkDirectory(tree, gitignore) ==
  LET rules == LoadGitignore(gitignore)
      Read(entry) == ~ignores(rules, entry.relativePath) /\ entry.readable
      read == SelectSeq(fg(tree), Read)
  IN [threw |-> FALSE,
      files |-> [i \in DOMAIN read |-> FileInfo(read[i].relativePath, read[i].content)]]
-----------------------------------------------------------------------------
(* commands/scan.ts *)

MaxFiles == 2
MaxDuration == 1

\* one entry of a server map: "<name>": {command?, url?, args?, env?}
Entry(name, command, url, argv) ==
  [name |-> name, kind |-> "object", command |-> command, url |-> url, args |-> argv,
   env |-> NONE]

\* the text {"<key>": {<entries>}}
JsonObject(key, entries) ==
  [k |-> "json", valid |-> TRUE, top |-> "object", key |-> key, map |-> "object",
   entries |-> entries]

\* the files a scanned tree may hold
Corpus ==
  << FileInfo(<<"t","o","o","l","s",".","p","y">>,
       << [k |-> "py_import", module |-> "mcp"],
          [k |-> "py_fastmcp", inst |-> "mcp"],
          [k |-> "py_def", decorator |-> "@mcp.tool()", name |-> <<"d","e","l","e","t","e","_","u","s","e","r">>,
           doc |-> SOME(<<" ","R","e","m","o","v","e"," ","a"," ","u","s","e","r","."," ">> \o <<"\n">> \o <<"D","e","t","a","i","l","s">>)],
          [k |-> "py_def", decorator |-> "@tool", name |-> <<"g","e","t","_","u","s","e","r">>, doc |-> NONE] >>),
     FileInfo(<<"a","g","e","n","t","s","/","c","r","e","w",".","p","y">>,
       << [k |-> "py_import", module |-> "crewai"],
          [k |-> "py_crew_agent", role |-> <<"S","e","n","i","o","r"," ","R","e","s","e","a","r","c","h","e","r">>,
           tools |-> SOME(<<<<"s","e","a","r","c","h","_","w","e","b">>, <<"N","o","n","e">>, <<"g","e","t","_","p","a","g","e">>>>)],
          [k |-> "py_tool_class", name |-> <<"O","u","t","p","u","t">>],
          [k |-> "py_def", decorator |-> "@tool()", name |-> <<"u","p","d","a","t","e","_","a","n","d","_","d","e","l","e","t","e">>,
           doc |-> NONE] >>),
     FileInfo(<<"s","r","c","/","s","e","r","v","e","r",".","t","s">>,
       << [k |-> "ts_import", module |-> "mcp"],
          [k |-> "ts_mcp_server", name |-> NONE],
          [k |-> "ts_server_tool", name |-> <<"r","u","n","_","q","u","e","r","y">>,
           descriptions |-> <<<<"R","u","n","s"," ","a"," ","q","u","e","r","y">>, <<"S","h","o","w","s"," ","r","o","w","s">>>>],
          [k |-> "ts_server_tool", name |-> <<"s","h","o","w","R","e","p","o","r","t">>, descriptions |-> <<>>] >>),
     FileInfo(<<"s","r","c","/","c","l","i","e","n","t",".","t","s">>,
       << [k |-> "text"],
          [k |-> "ts_mcp_server", name |-> NONE],
          [k |-> "ts_mcp_server", name |-> SOME(<<"f","s">>)] >>),
     FileInfo(<<"m","a","i","n",".","g","o">>,
       << [k |-> "go_register", name |-> <<"u","p","d","a","t","e","_","i","t","e","m">>],
          [k |-> "go_tool_func", funcName |-> <<"U","p","d","a","t","e","I","t","e","m","T","o","o","l">>],
          [k |-> "go_tool_func", funcName |-> <<"G","e","t","U","s","e","r","H","a","n","d","l","e","r">>],
          [k |-> "go_register", name |-> <<"f","o","o">>] >>),
     FileInfo(<<"m","c","p",".","j","s","o","n">>,
       << JsonObject("mcpServers",
                      << Entry(<<"w","e","b">>, NONE, SOME(<<"h","t","t","p",":","/","/","h","/">>), NONE),
                          Entry(<<"f","s">>, SOME(<<"n","p","x">>), NONE, SOME(<<<<"x">>>>)),
                          Entry(<<"b","a","d">>, NONE, NONE, NONE) >>) >>),
     FileInfo(<<"d","a","t","a",".","j","s","o","n">>,
       << JsonObject("other", <<>>) >>) >>

\* a file of the tree that cannot be read
Locked == OnDisk(<<"l","o","c","k","e","d",".","p","y">>, <<>>, FALSE)

\* the trees scanned: distinct files of the corpus, in any order, among them
\* at most one that cannot be read
ScanTrees ==
  LET entries == {OnDisk(Corpus[i].relativePath, Corpus[i].content, TRUE) : i \in DOMAIN Corpus}
                   \cup {Locked}
  IN {tree \in SeqsUpTo(entries, MaxFiles) : \A i, j \in DOMAIN tree : i # j => tree[i] # tree[j]}

\* the (file, detector) pairs whose detect call throws: none, the detector of
\* the first file, or that of the second
ScanThrowing == {{}, {<<1, 1>>}, {<<2, 1>>}}

\* what a scan runs in: the tree under the root, its .gitignore, and the
\* detect calls that throw
ScanEnvironments ==
  [tree : ScanTrees, gitignore : {[state |-> "absent", rules |-> {}]}, throwing : ScanThrowing]

ScanOption(framework, risk, json, output) ==
  [framework |-> framework, risk |-> risk, json |-> json, output |-> output]

\* the command lines tried: no filter, either filter, both, --json, and
\* --json with --output
ScanOptionSets ==
  { ScanOption(NONE, NONE, FALSE, SOME(<<"o","u","t",".","j","s","o","n">>)),
    ScanOption(SOME("mcp"), NONE, FALSE, NONE),
    ScanOption(NONE, SOME(<<"h","i","g","h">>), FALSE, SOME(<<"o","u","t",".","j","s","o","n">>)),
    ScanOption(SOME("mcp"), SOME(<<"L","O","W">>), FALSE, NONE),
    ScanOption(NONE, NONE, TRUE, NONE),
    ScanOption(NONE, SOME(<<"l","o","w">>), TRUE, SOME(<<"o","u","t",".","j","s","o","n">>)) }

absolutePath == <<"/","r","e","p","o">>

NewDetectors ==
  [python |-> [docstrings |-> <<>>, detectedFramework |-> "unknown",
               lastIndex |-> [mcpImport |-> 0, langGraphImport |-> 0, crewAiImport |-> 0,
                              autoGenImport |-> 0, langchainImport |-> 0]],
   typescript |-> [detectedFramework |-> "unknown",
                   lastIndex |-> [mcpImport |-> 0, langchainImport |-> 0]],
   go |-> [lastIndex |-> [capabilitiesImport |-> 0]]]

Init ==
  /\ pc = "walk"
  /\ options \in ScanOptionSets
  /\ files = <<>>
  /\ cursor = 0
  /\ result = EmptyResult
  /\ manifest = NONE
  /\ detectors = NewDetectors
  /\ console = <<>>
  /\ outFile = NONE
  /\ exitCode = NONE
  /\ args \in ScanEnvironments
  /\ ret = NONE

\* the catch block: printError, process.exit(1)
Fail(message) ==
  /\ console' = Append(console, [stream |-> "stderr", what |-> "error", message |-> message])
  /\ exitCode' = SOME(1)
  /\ pc' = "exited"

\* await walkDirectory(absolutePath) returns the files
WalkDirectory ==
  /\ pc = "walk"
  /\ \E walked \in {walkDirectory(args.tree, args.gitignore)} :
       /\ ~walked.threw
       /\ files' = walked.files
  /\ pc' = "process"
  /\ UNCHANGED <<options, cursor, result, manifest, detectors, console, outFile, exitCode,
                 args, ret>>

\* await walkDirectory(absolutePath) rejects: the traversal (fg) fails, or
\* walkDirectory lets an error of its own out
WalkDirectoryFails ==
  /\ pc = "walk"
  /\ \E message \in {"traversal"}
                       \cup {"read" : t \in {walkDirectory(args.tree, args.gitignore).threw} \ {FALSE}} :
       Fail(message)
  /\ UNCHANGED <<options, files, cursor, result, manifest, detectors, outFile, args, ret>>

\* console.error(`Error in detector ${detector.name} for file ...`) of the
\* catch in processFile, once per detector that threw
DetectorErrors(errors, file) ==
  [i \in DOMAIN errors |->
     [stream |-> "stderr", what |-> "detector_error", detector |-> errors[i],
      file |-> file.relativePath]]

\* router.processFiles: the next file goes through its detectors and the batch
\* is appended
ProcessFile ==
  /\ pc = "process"
  /\ cursor < Len(files)
  /\ \E r \in {processFile(createRouter, files[cursor + 1], detectors,
                           {p \in 1..1 : <<cursor + 1, p>> \in args.throwing})} :
       /\ result' = Concat(result, r.result)
       /\ detectors' = r.state
       /\ console' = console \o DetectorErrors(r.errors, files[cursor + 1])
  /\ cursor' = cursor + 1
  /\ UNCHANGED <<pc, options, files, manifest, outFile, exitCode, args, ret>>

\* the filters applied before the deduplication
AssembledFilterFirst(res, opts) ==
  LET byFramework == IF opts.framework # NONE
                     THEN filterByFramework(res.tools, opts.framework[1])
                     ELSE res.tools
      byRisk == IF opts.risk # NONE
                THEN filterByRisk(byFramework, toUpperCase(opts.risk[1]))
                ELSE byFramework
  IN [tools |-> deduplicateTools(byRisk),
      agents |-> deduplicateAgents(res.agents),
      mcpServers |-> deduplicateMcpServers(res.mcpServers)]

\* the framework filter applied to the agents as well
AssembledAgentsFiltered(res, opts) ==
  LET deduped == [tools |-> deduplicateTools(res.tools),
                  agents |-> deduplicateAgents(res.agents),
                  mcpServers |-> deduplicateMcpServers(res.mcpServers)]
      byFramework == IF opts.framework # NONE
                     THEN [deduped EXCEPT !.tools = filterByFramework(@, opts.framework[1]),
                                          !.agents = filterByFramework(@, opts.framework[1])]
                     ELSE deduped
  IN IF opts.risk # NONE
     THEN [byFramework EXCEPT !.tools = filterByRisk(@, toUpperCase(opts.risk[1]))]
     ELSE byFramework

\* result.tools/agents/mcpServers after the deduplication and the filters
Assembled(res, opts) ==
  LET deduped == [tools |-> deduplicateTools(res.tools),
                  agents |-> deduplicateAgents(res.agents),
                  mcpServers |-> deduplicateMcpServers(res.mcpServers)]
      byFramework == IF opts.framework # NONE
                     THEN [deduped EXCEPT !.tools = filterByFramework(@, opts.framework[1])]
                     ELSE deduped
  IN IF opts.risk # NONE
     THEN [byFramework EXCEPT !.tools = filterByRisk(@, toUpperCase(opts.risk[1]))]
     ELSE byFramework

\* printFullResults without its 'Output written to' line
PrintedResultsOnly(m, opts) ==
  IF opts.json THEN <<[stream |-> "stdout", what |-> "json", manifest |-> m]>>
  ELSE <<[stream |-> "stdout", what |-> "results", manifest |-> m]>>

\* printJsonOutput, or printFullResults with its 'Output written to' line
Printed(m, opts) ==
  IF opts.json THEN <<[stream |-> "stdout", what |-> "json", manifest |-> m]>>
  ELSE <<[stream |-> "stdout", what |-> "results", manifest |-> m]>>
         \o (IF opts.output # NONE
             THEN <<[stream |-> "stdout", what |-> "output_path", path |-> opts.output[1]]>>
             ELSE <<>>)

\* from the end of processFiles to the await of writeManifest: deduplicate,
\* filter, build the manifest, print.  The duration fills scan_duration_ms and
\* nothing else, so the manifest is built once and the field set for each
\* duration the clock may give.
Assemble ==
  /\ pc = "process"
  /\ cursor = Len(files)
  /\ \E res \in {Assembled(result, options)} :
       \E built \in {createManifest(res, absolutePath, Len(files), 0)} :
         \E duration \in 0..MaxDuration :
           \E m \in {[built EXCEPT !.scan_duration_ms = duration]} :
             /\ result' = res
             /\ manifest' = SOME(m)
             /\ console' = console \o Printed(m, options)
  /\ pc' = IF options.output # NONE THEN "write" ELSE "done"
  /\ UNCHANGED <<options, files, cursor, detectors, outFile, exitCode, args, ret>>

\* await writeManifest(manifest, options.output) succeeds
WriteManifest ==
  /\ pc = "write"
  /\ outFile' = manifest
  /\ pc' = "done"
  /\ UNCHANGED <<options, files, cursor, result, manifest, detectors, console, exitCode,
                 args, ret>>

\* await writeManifest(manifest, options.output) rejects
WriteManifestFails ==
  /\ pc = "write"
  /\ Fail("write")
  /\ UNCHANGED <<options, files, cursor, result, manifest, detectors, outFile, args, ret>>

Next ==
  \/ WalkDirectory
  \/ WalkDirectoryFails
  \/ ProcessFile
  \/ Assemble
  \/ WriteManifest
  \/ WriteManifestFails

Spec == Init /\ [][Next]_vars

-----------------------------------------------------------------------------
(* Bounded inputs of the inference functions *)

MaxWords == 2
MaxTextLen == 4

RECURSIVE Join(_, _)
Join(words, sep) ==
  IF words = <<>> THEN <<>>
  ELSE IF Len(words) = 1 THEN words[1]
  ELSE words[1] \o sep \o Join(Tail(words), sep)

WordPool ==
  << <<"d","e","l","e","t","e">>, <<"u","p","d","a","t","e">>, <<"r","u","n">>,
     <<"o","u","t","p","u","t">>, <<"s","h","o","w">>, <<"g","e","t">>, <<"f","o","o">>,
     <<"a","n","d">>, <<"r","e","s","e","t">>, <<"b","u","d","g","e","t">> >>

update_and_delete ==
  <<"u","p","d","a","t","e","_","a","n","d","_","d","e","l","e","t","e">>
getUserData == <<"g","e","t","U","s","e","r","D","a","t","a">>
LIST_FILES == <<"L","I","S","T","_","F","I","L","E","S">>
DeletesTheUser == <<"D","e","l","e","t","e","s"," ","t","h","e"," ","u","s","e","r">>

ReadmeKeywords == UNION {Range(README_TABLE[r].keywords) : r \in DOMAIN README_TABLE}

InferNames ==
  {Join(ws, <<"_">>) : ws \in SeqsUpTo(Range(WordPool), MaxWords) \ {<<>>}}
    \cup ReadmeKeywords \cup {update_and_delete, getUserData, LIST_FILES}

InferDescriptions ==
  {NONE, SOME(<<>>), SOME(DeletesTheUser)} \cup {SOME(w) : w \in Range(WordPool)}

TokenAlphabet == {"a", "b", "A", "B", "_", "-", " "}

TokenizeTexts == SeqsUpTo(TokenAlphabet, MaxTextLen) \cup {getUserData, LIST_FILES}

-----------------------------------------------------------------------------
(* Bounded inputs of the deduplication functions *)

MaxList == 3
MaxRounds == 2

\* names and sources with and without ':' in them
DedupNames == {<<"a">>, <<"a",":","b">>}
DedupSources == {<<"b",":","c",".","p","y",":","1">>, <<"c",".","p","y",":","1">>}

DedupTools ==
  {[name |-> n, framework |-> f, source |-> s, line |-> 1,
    permission |-> "UNKNOWN", risk |-> MEDIUM, description |-> NONE] :
     n \in DedupNames, s \in DedupSources, f \in {"custom", "mcp"}}

DedupAgents ==
  {[name |-> n, framework |-> f, source |-> s, line |-> 1, tools |-> <<>>] :
     n \in DedupNames, s \in DedupSources, f \in {"crewai", "autogen"}}

DedupServers ==
  {[name |-> n, command |-> c, source |-> s] :
     n \in {<<"f","s">>, <<"w","e","b">>}, c \in {<<"n","p","x">>, <<"t","y","p","e","s","c","r","i","p","t">>},
     s \in {<<"m","c","p",".","j","s","o","n">>, <<"s","r","v",".","t","s",":","1">>}}


DedupInputs(fn) ==
  CASE fn = "deduplicateTools" -> DedupTools
    [] fn = "deduplicateAgents" -> DedupAgents
    [] fn = "deduplicateMcpServers" -> DedupServers
-----------------------------------------------------------------------------
(* Bounded inputs of the assembly: a detected collection and a reordering *)

MaxEntities == 2

\* get_user is found by '@tool()' under both decorator patterns, at one
\* source, and by the Go detector in another file
AssembleTools ==
  {[name |-> <<"g","e","t","_","u","s","e","r">>, framework |-> f, source |-> s, line |-> 3,
    permission |-> "READ", risk |-> LOW, description |-> NONE] :
     f \in {"custom", "mcp"}, s \in {<<"t","o","o","l","s",".","p","y",":","3">>, <<"m","a","i","n",".","g","o",":","3">>}}
  \cup {[name |-> <<"d","e","l","e","t","e","_","u","s","e","r">>, framework |-> "mcp", source |-> <<"t","o","o","l","s",".","p","y",":","9">>,
         line |-> 9, permission |-> "DELETE", risk |-> HIGH, description |-> NONE]}

AssembleAgents ==
  {[name |-> n, framework |-> f, source |-> <<"c","r","e","w",".","p","y",":","2">>, line |-> 2, tools |-> <<>>] :
     n \in {<<"R","e","s","e","a","r","c","h","e","r">>, <<"W","r","i","t","e","r">>}, f \in {"crewai", "autogen"}}

\* a server declared in a configuration file and again in code
AssembleServers ==
  {[name |-> <<"f","s">>, command |-> <<"n","p","x">>, source |-> <<"m","c","p",".","j","s","o","n">>],
   [name |-> <<"f","s">>, command |-> <<"t","y","p","e","s","c","r","i","p","t">>, source |-> <<"s","r","c","/","c","l","i","e","n","t",".","t","s",":","3">>],
   [name |-> <<"w","e","b">>, command |-> <<"h","t","t","p",":","/","/","h","/">>, source |-> <<"m","c","p",".","j","s","o","n">>]}

\* the results that hold one kind of entity only
AssembleResults ==
  {[EmptyResult EXCEPT !.tools = list] : list \in SeqsUpTo(AssembleTools, MaxEntities)}
  \cup {[EmptyResult EXCEPT !.agents = list] : list \in SeqsUpTo(AssembleAgents, MaxEntities)}
  \cup {[EmptyResult EXCEPT !.mcpServers = list] :
          list \in SeqsUpTo(AssembleServers, MaxEntities)}

\* every order of the elements of seq
Reorderings(seq) ==
  {[i \in DOMAIN seq |-> seq[p[i]]] : p \in Permutations(DOMAIN seq)}

\* --framework and --risk as typed: in the tags' and tiers' own case, in
\* another case, and a risk that is no tier
FilterOptionSets ==
  {ScanOption(framework, risk, FALSE, NONE) :
     framework \in {NONE, SOME("mcp"), SOME("MCP"), SOME("custom")},
     risk \in {NONE, SOME(<<"h","i","g","h">>), SOME(<<"H","i","g","h">>), SOME(<<"H","I","G","H">>), SOME(<<"l","o","w">>),
               SOME(<<"s","e","v","e","r","e">>)}}


\* the agents and the servers found along with the tools: none, or two agents
\* of two frameworks and three servers, two of one name, out of name order
FilterAgents ==
  {<<>>,
   <<[name |-> <<"W","r","i","t","e","r">>, framework |-> "autogen", source |-> <<"c","r","e","w",".","p","y",":","2">>, line |-> 2,
      tools |-> <<>>],
     [name |-> <<"R","e","s","e","a","r","c","h","e","r">>, framework |-> "crewai", source |-> <<"c","r","e","w",".","p","y",":","2">>, line |-> 2,
      tools |-> <<>>]>>}

FilterServers ==
  {<<>>,
   <<[name |-> <<"w","e","b">>, command |-> <<"h","t","t","p",":","/","/","h","/">>, source |-> <<"m","c","p",".","j","s","o","n">>],
     [name |-> <<"f","s">>, command |-> <<"n","p","x">>, source |-> <<"m","c","p",".","j","s","o","n">>],
     [name |-> <<"f","s">>, command |-> <<"t","y","p","e","s","c","r","i","p","t">>, source |-> <<"s","r","c","/","c","l","i","e","n","t",".","t","s",":","3">>]>>}
-----------------------------------------------------------------------------
(* Bounded inputs of the router: registrations, files, failing invocations *)

MaxRegistrations == 2
MaxThrows == 1

\* register(detector, extensions) calls: extensions with and without the dot,
\* two detectors on one extension
Registrations ==
  {[detector |-> "python", extensions |-> <<<<".","p","y">>>>],
   [detector |-> "python", extensions |-> <<<<"p","y">>>>],
   [detector |-> "go", extensions |-> <<<<".","g","o">>, <<"p","y">>>>],
   [detector |-> "go", extensions |-> <<<<".","g","o">>>>]}

RouterFiles ==
  {FileInfo(<<"a",".","p","y">>,
     <<[k |-> "py_def", decorator |-> "@tool", name |-> <<"d","e","l","e","t","e","_","u","s","e","r">>, doc |-> NONE]>>),
   FileInfo(<<"b",".","g","o">>, <<[k |-> "go_register", name |-> <<"r","u","n">>]>>)}

\* the invocations that throw: (index of the file, position among the file's
\* detectors)
ThrowingSets ==
  {t \in SUBSET ((1..2) \X (1..2)) : Cardinality(t) <= MaxThrows}

-----------------------------------------------------------------------------
(* Bounded inputs of the detectors: the files given to successive detect calls *)

MaxCalls == 3

\* a .py file whose one pattern is a decorated function delete_user, after
\* some lines of other text
DecoratedOnly(relativePath, decorator, linesBefore) ==
  FileInfo(relativePath,
           [i \in 1..linesBefore |-> [k |-> "text"]]
             \o <<[k |-> "py_def", decorator |-> decorator, name |-> <<"d","e","l","e","t","e","_","u","s","e","r">>,
                   doc |-> NONE]>>)

DetectFiles(detector) ==
  CASE detector = "python" ->
         {Corpus[1], Corpus[2],
          DecoratedOnly(<<"p","l","a","i","n",".","p","y">>, "@tool", 0),
          DecoratedOnly(<<"c","a","l","l","e","d",".","p","y">>, "@tool()", 1),
          DecoratedOnly(<<"s","r","v","/","m","c","p",".","p","y">>, "@mcp.tool()", 2)}
    [] detector = "typescript" -> {Corpus[3], Corpus[4]}
    [] detector = "go" -> {Corpus[5]}

DetectCalls ==
  UNION {[detector : {d}, files : SeqsUpTo(DetectFiles(d), MaxCalls)] :
           d \in {"python", "typescript", "go"}}

-----------------------------------------------------------------------------
(* Bounded inputs of the configuration detector: .json files *)

MaxServers == 2

\* a member of a server map whose value is no object
Member(name, kind) ==
  [name |-> name, kind |-> kind, command |-> NONE, url |-> NONE, args |-> NONE,
   env |-> NONE]

\* members a server map may hold, each under its own key
ServerEntries ==
  { Entry(<<"f","s">>, SOME(<<"n","p","x">>), NONE, SOME(<<<<"x">>>>)),
    [Entry(<<"d","b">>, SOME(<<"n","o","d","e">>), NONE, NONE) EXCEPT !.env = SOME(<<"K","E","Y","=","1">>)],
    Entry(<<"w","e","b">>, NONE, SOME(<<"h","t","t","p",":","/","/","h","/">>), NONE),
    Entry(<<"b","o","t","h">>, SOME(<<"n","p","x">>), SOME(<<"h","t","t","p",":","/","/","h","/">>), SOME(<<<<"x">>>>)),
    Entry(<<"b","l","a","n","k">>, SOME(<<>>), SOME(<<"h","t","t","p",":","/","/","h","/">>), NONE),
    Entry(<<"b","a","d">>, NONE, NONE, NONE),
    Member(<<"a","r","r">>, "array"),
    Member(<<"s","t","r">>, "string"),
    Member(<<"n","u","l">>, "null") }

DistinctNames(entries) ==
  \A i, j \in DOMAIN entries : i # j => entries[i].name # entries[j].name

\* the JSON texts tried: no JSON, a value that is no object, an object whose
\* one property holds an object, an array, a string, a number or null
JsonTexts ==
  LET keys == {"mcpServers", "servers", "other"}
      members == {es \in SeqsUpTo(ServerEntries, MaxServers) : DistinctNames(es)}
      chars == {es \in members : \A i \in DOMAIN es : es[i].kind = "string"}
      Text(valid, top, key, map, entries) ==
        [k |-> "json", valid |-> valid, top |-> top, key |-> key, map |-> map,
         entries |-> entries]
  IN {Text(FALSE, "object", key, "object", es) : key \in keys, es \in members}
       \cup {Text(TRUE, top, "other", "null", <<>>) : top \in {"array", "number", "null"}}
       \cup {Text(TRUE, "object", key, map, es) :
               key \in keys, map \in {"object", "array"}, es \in members}
       \cup {Text(TRUE, "object", key, "string", es) : key \in keys, es \in chars}
       \cup {Text(TRUE, "object", key, map, <<>>) : key \in keys, map \in {"number", "null"}}

McpConfigFiles ==
  {FileInfo(relativePath, <<json>>) :
     relativePath \in {<<"m","c","p",".","j","s","o","n">>, <<".","c","u","r","s","o","r","/","m","c","p",".","j","s","o","n">>, <<"c","o","n","f","/","a","p","p",".","j","s","o","n">>},
     json \in JsonTexts}
-----------------------------------------------------------------------------
(* Bounded inputs of walkDirectory: the tree under the root *)

MaxTreeFiles == 2

TreePaths ==
  {<<"t","o","o","l","s",".","p","y">>, <<"s","r","c","/","s","e","r","v","e","r",".","t","s">>, <<"g","e","n","/","c",".","p","y">>, <<"n","o","d","e","_","m","o","d","u","l","e","s","/","x",".","j","s">>, <<"l","i","b","/","a","p","p",".","m","i","n",".","j","s">>,
   <<"n","o","t","e","s",".","t","x","t">>, <<".","c","u","r","s","o","r","/","m","c","p",".","j","s","o","n">>}

\* the root's .gitignore: none, one that cannot be read, or one with rules
Gitignores ==
  {[state |-> "absent", rules |-> {}], [state |-> "unreadable", rules |-> {<<"g","e","n">>}]}
    \cup {[state |-> "present", rules |-> rules] : rules \in {{}, {<<"g","e","n">>}, {<<"t","o","o","l","s",".","p","y">>}}}

Trees ==
  {tree \in SeqsUpTo({OnDisk(p, <<[k |-> "text", of |-> p]>>, r) : p \in TreePaths, r \in BOOLEAN}, MaxTreeFiles) :
     \A i, j \in DOMAIN tree : i # j => tree[i].relativePath # tree[j].relativePath}
-----------------------------------------------------------------------------
(* Bounded inputs of the Go detector: files of a few declarations *)

MaxDecls == 3

GoField(fieldName, type, json) == [fieldName |-> fieldName, type |-> type, json |-> json]

GoDecls ==
  { [k |-> "go_import", capabilities |-> TRUE],
    [k |-> "go_cap_type", prefix |-> <<"G","e","t">>, name |-> <<"g","e","t","_","f","i","l","e">>, qualified |-> TRUE],
    [k |-> "go_cap_type", prefix |-> <<"D","e","l">>, name |-> <<"d","e","l","e","t","e","_","f","i","l","e">>, qualified |-> FALSE],
    [k |-> "go_cap_version", prefix |-> <<"G","e","t">>, version |-> <<"1",".","0",".","0">>],
    [k |-> "go_cap_version", prefix |-> <<"D","e","l">>, version |-> <<"2",".","1">>],
    [k |-> "go_cap_version", prefix |-> <<"P","u","t">>, version |-> <<"9">>],
    [k |-> "go_input", prefix |-> <<"G","e","t">>,
     fields |-> <<GoField(<<"P","a","t","h">>, "string", <<"p","a","t","h">>), GoField(<<"A","n","y">>, "interface{}", <<"a","n","y">>),
                  GoField(<<"D","e","p","t","h">>, "int", <<"d","e","p","t","h">>)>>],
    [k |-> "go_input", prefix |-> <<"D","e","l">>,
     fields |-> <<GoField(<<"N","a","m","e","s">>, "[]string", <<"n","a","m","e","s">>), GoField(<<"F","o","r","c","e">>, "bool", <<"f","o","r","c","e">>)>>],
    [k |-> "go_input", prefix |-> <<"P","u","t">>, fields |-> <<GoField(<<"P","a","t","h">>, "string", <<"p","a","t","h">>)>>],
    [k |-> "go_register", name |-> <<"g","e","t","_","f","i","l","e">>],
    [k |-> "text"] }

GoFiles == {FileInfo(<<"c","a","p","s",".","g","o">>, decls) : decls \in SeqsUpTo(GoDecls, MaxDecls)}
-----------------------------------------------------------------------------
(* Bounded inputs of the Python detector: files of a few statements *)

MaxStatements == 3

PyDef(decorator, name) == [k |-> "py_def", decorator |-> decorator, name |-> name, doc |-> NONE]

PyStatements ==
  { [k |-> "py_fastmcp", inst |-> "mcp"],
    [k |-> "py_fastmcp", inst |-> "app"],
    PyDef("@mcp.tool()", <<"g","e","t","_","u","s","e","r">>),
    PyDef("@app.tool()", <<"d","e","l","e","t","e","_","u","s","e","r">>),
    PyDef("@tool", <<"r","u","n","_","j","o","b">>),
    [k |-> "text"] }

PyFiles == {FileInfo(<<"s","r","v",".","p","y">>, statements) : statements \in SeqsUpTo(PyStatements, MaxStatements)}
-----------------------------------------------------------------------------
(* Direct calls of the exported functions *)

NoOptions == [framework |-> NONE, risk |-> NONE, json |-> FALSE, output |-> NONE]

\* scanCommand is not running
NoScan ==
  /\ pc = "idle"
  /\ options = NoOptions
  /\ files = <<>>
  /\ cursor = 0
  /\ result = EmptyResult
  /\ manifest = NONE
  /\ detectors = NewDetectors
  /\ console = <<>>
  /\ outFile = NONE
  /\ exitCode = NONE

scanVars ==
  <<pc, options, files, cursor, result, manifest, detectors, console, outFile, exitCode>>

InitInfer ==
  /\ NoScan
  /\ args \in [name : InferNames, description : InferDescriptions]
  /\ ret = NONE

CallInferPermissionAndRisk ==
  /\ ret = NONE
  /\ ret' = SOME(inferPermissionAndRisk(args.name, args.description))
  /\ UNCHANGED <<args, scanVars>>

SpecInfer == InitInfer /\ [][CallInferPermissionAndRisk]_vars

InitTokenize ==
  /\ NoScan
  /\ args \in [text : TokenizeTexts]
  /\ ret = NONE

CallTokenize ==
  /\ ret = NONE
  /\ ret' = SOME(tokenize(args.text))
  /\ UNCHANGED <<args, scanVars>>

SpecTokenize == InitTokenize /\ [][CallTokenize]_vars

-----------------------------------------------------------------------------
(* Direct calls of the deduplication functions, each applied to an input list
   and then again to its own output; args.first stays the list of the first
   call *)

InitDedup ==
  /\ NoScan
  /\ \E fn \in {"deduplicateTools", "deduplicateAgents", "deduplicateMcpServers"} :
       \E list \in SeqsUpTo(DedupInputs(fn), MaxList) :
         args = [fn |-> fn, first |-> list, list |-> list, round |-> 0]
  /\ ret = NONE

NextInput == IF ret = NONE THEN args.list ELSE ret[1]

CallDeduplicateTools ==
  /\ args.fn = "deduplicateTools"
  /\ args.round < MaxRounds
  /\ args' = [args EXCEPT !.list = NextInput, !.round = @ + 1]
  /\ ret' = SOME(deduplicateTools(NextInput))
  /\ UNCHANGED scanVars

CallDeduplicateAgents ==
  /\ args.fn = "deduplicateAgents"
  /\ args.round < MaxRounds
  /\ args' = [args EXCEPT !.list = NextInput, !.round = @ + 1]
  /\ ret' = SOME(deduplicateAgents(NextInput))
  /\ UNCHANGED scanVars

CallDeduplicateMcpServers ==
  /\ args.fn = "deduplicateMcpServers"
  /\ args.round < MaxRounds
  /\ args' = [args EXCEPT !.list = NextInput, !.round = @ + 1]
  /\ ret' = SOME(deduplicateMcpServers(NextInput))
  /\ UNCHANGED scanVars

NextDedup ==
  \/ CallDeduplicateTools
  \/ CallDeduplicateAgents
  \/ CallDeduplicateMcpServers

SpecDedup == InitDedup /\ [][NextDedup]_vars

-----------------------------------------------------------------------------
(* The assembly of scanCommand, from the deduplication to createManifest,
   applied to a result and then to a reordering of it *)

InitAssemble ==
  /\ NoScan
  /\ \E res \in AssembleResults :
       \E tools \in Reorderings(res.tools) :
         \E agents \in Reorderings(res.agents) :
           \E mcpServers \in Reorderings(res.mcpServers) :
             args = <<res, [tools |-> tools, agents |-> agents,
                            mcpServers |-> mcpServers]>>
  /\ ret = <<>>

\* the next of the two orderings is deduplicated and made a manifest
CallAssemble ==
  /\ Len(ret) < Len(args)
  /\ ret' = Append(ret, createManifest(Assembled(args[Len(ret) + 1], NoOptions),
                                       absolutePath, 1, 0))
  /\ UNCHANGED <<args, scanVars>>

SpecAssemble == InitAssemble /\ [][CallAssemble]_vars

(* The same assembly under the --framework and --risk options *)

InitFilter ==
  /\ NoScan
  /\ args \in [tools : SeqsUpTo(AssembleTools, MaxEntities), agents : FilterAgents,
                mcpServers : FilterServers, options : FilterOptionSets]
  /\ ret = NONE

CallAssembleFiltered ==
  /\ ret = NONE
  /\ ret' = SOME(createManifest(
                   Assembled([tools |-> args.tools, agents |-> args.agents,
                              mcpServers |-> args.mcpServers], args.options),
                   absolutePath, 1, 0))
  /\ UNCHANGED <<args, scanVars>>

SpecFilter == InitFilter /\ [][CallAssembleFiltered]_vars

-----------------------------------------------------------------------------
(* A router built by register calls, then processFiles over some files *)

RECURSIVE registerAll(_, _)
registerAll(map, registrations) ==
  IF registrations = <<>> THEN map
  ELSE registerAll(register(map, Head(registrations).detector,
                            Head(registrations).extensions),
                   Tail(registrations))

InitRouter ==
  /\ NoScan
  /\ args \in [registrations : SeqsUpTo(Registrations, MaxRegistrations),
               files : SeqsUpTo(RouterFiles, 2),
               throwing : ThrowingSets]
  /\ ret = [result |-> EmptyResult, state |-> NewDetectors, calls |-> <<>>,
            errors |-> <<>>]

\* one round of the loop of processFiles: the next file through processFile
CallProcessFile ==
  /\ Len(ret.calls) < Len(args.files)
  /\ \E r \in {processFile(registerAll(<<>>, args.registrations),
                           args.files[Len(ret.calls) + 1], ret.state,
                           {p \in 1..2 : <<Len(ret.calls) + 1, p>> \in args.throwing})} :
       ret' = [result |-> Concat(ret.result, r.result), state |-> r.state,
               calls |-> Append(ret.calls, r.calls),
               errors |-> Append(ret.errors, r.errors)]
  /\ UNCHANGED <<args, scanVars>>

SpecRouter == InitRouter /\ [][CallProcessFile]_vars

-----------------------------------------------------------------------------
(* One detector instance, its detect called on one file after another *)

InitDetect ==
  /\ NoScan
  /\ args \in DetectCalls
  /\ ret = [batches |-> <<>>, state |-> NewDetectors]

CallDetect ==
  /\ Len(ret.batches) < Len(args.files)
  /\ \E r \in {Detect(args.detector, args.files[Len(ret.batches) + 1], ret.state)} :
       ret' = [batches |-> Append(ret.batches, r.batch), state |-> r.state]
  /\ UNCHANGED <<args, scanVars>>

SpecDetect == InitDetect /\ [][CallDetect]_vars

-----------------------------------------------------------------------------
(* McpConfigDetector.detect called on one .json file *)

InitMcpConfig ==
  /\ NoScan
  /\ args \in McpConfigFiles
  /\ ret = NONE

CallMcpConfigDetect ==
  /\ ret = NONE
  /\ ret' = SOME(McpConfigDetect(args))
  /\ UNCHANGED <<args, scanVars>>

SpecMcpConfig == InitMcpConfig /\ [][CallMcpConfigDetect]_vars
-----------------------------------------------------------------------------
(* walkDirectory called on one tree *)

InitWalk ==
  /\ NoScan
  /\ args \in [tree : Trees, gitignore : Gitignores]
  /\ ret = NONE

CallWalkDirectory ==
  /\ ret = NONE
  /\ ret' = SOME(walkDirectory(args.tree, args.gitignore))
  /\ UNCHANGED <<args, scanVars>>

SpecWalk == InitWalk /\ [][CallWalkDirectory]_vars
-----------------------------------------------------------------------------
(* GoDetector.detect called on one file by a new detector *)

InitGo ==
  /\ NoScan
  /\ args \in GoFiles
  /\ ret = NONE

CallGoDetect ==
  /\ ret = NONE
  /\ ret' = SOME(GoDetect(args, NewDetectors.go).batch)
  /\ UNCHANGED <<args, scanVars>>

SpecGo == InitGo /\ [][CallGoDetect]_vars
-----------------------------------------------------------------------------
(* PythonDetector.detect called on one file by a new detector *)

InitPy ==
  /\ NoScan
  /\ args \in PyFiles
  /\ ret = NONE

CallPythonDetect ==
  /\ ret = NONE
  /\ ret' = SOME(PythonDetect(args, NewDetectors.python).batch)
  /\ UNCHANGED <<args, scanVars>>

SpecPy == InitPy /\ [][CallPythonDetect]_vars
-----------------------------------------------------------------------------
(* A scan of one Python file: its batch, then the assembly under a
   --framework option *)

PyScanFrameworks == {NONE, SOME("fastmcp"), SOME("mcp"), SOME("custom")}

InitPyScan ==
  /\ NoScan
  /\ args \in [file : PyFiles, framework : PyScanFrameworks]
  /\ ret = [batch |-> NONE, manifest |-> NONE]

\* router.processFiles over the one file
CallProcessFiles ==
  /\ ret.batch = NONE
  /\ ret' = [ret EXCEPT !.batch = SOME(PythonDetect(args.file, NewDetectors.python).batch)]
  /\ UNCHANGED <<args, scanVars>>

\* deduplicate, filter, createManifest
CallCreateManifest ==
  /\ ret.batch # NONE
  /\ ret.manifest = NONE
  /\ ret' = [ret EXCEPT !.manifest =
               SOME(createManifest(
                      Assembled(ret.batch[1], [NoOptions EXCEPT !.framework = args.framework]),
                      absolutePath, 1, 0))]
  /\ UNCHANGED <<args, scanVars>>

SpecPyScan == InitPyScan /\ [][CallProcessFiles \/ CallCreateManifest]_vars
-----------------------------------------------------------------------------
(* Properties of the inference engine *)

TableOrder == <<"DELETE", "EXECUTE", "WRITE", "OUTPUT", "READ">>

\* token = stem . rest  or  token = rest . stem
StemMatch(token, stem) ==
  \E k \in 0..Len(token) :
    \/ SubSeq(token, 1, k) = stem
    \/ SubSeq(token, k + 1, Len(token)) = stem

TableHit(tokens, p) ==
  \E token \in Range(tokens) : \E stem \in Range(getKeywordsForPermission(p)) :
    StemMatch(token, stem)

CallTokens ==
  tokenize(args.name)
    \o (IF args.description = NONE THEN <<>> ELSE tokenize(args.description[1]))

\* C2: inferPermission returns the permission of the first table, in the order
\* DELETE, EXECUTE, WRITE, OUTPUT, READ, that has a token of the name or of the
\* description equal to, starting with or ending with one of its stems; it
\* returns UNKNOWN exactly when no table has one; update_and_delete is DELETE.
C2_FirstMatchingTableWins ==
  ret # NONE =>
    LET hits == {i \in DOMAIN TableOrder : TableHit(CallTokens, TableOrder[i])}
    IN /\ (hits = {}) <=> (ret[1].permission = "UNKNOWN")
       /\ hits # {} => ret[1].permission = TableOrder[Min(hits)]
       /\ args.name = update_and_delete => ret[1].permission = "DELETE"

C2_Witness ==
  /\ ret # NONE
  /\ args.name = update_and_delete
  /\ args.description = NONE
  /\ TableHit(CallTokens, "WRITE")
  /\ ret[1].permission = "DELETE"

\* C3: a tool named exactly by a keyword of the README's Permission Inference
\* table, with no description, gets the permission and the risk of that row.
C3_ReadmeKeywordGetsItsRow ==
  (ret # NONE /\ args.description = NONE) =>
    \A r \in DOMAIN README_TABLE :
      args.name \in Range(README_TABLE[r].keywords) =>
        /\ ret[1].permission = README_TABLE[r].permission
        /\ ret[1].risk = README_TABLE[r].risk


\* the place of a permission in the order DELETE, EXECUTE, WRITE, OUTPUT, READ,
\* UNKNOWN
Position(permission) ==
  IF permission = "UNKNOWN" THEN Len(TableOrder) + 1
  ELSE CHOOSE i \in DOMAIN TableOrder : TableOrder[i] = permission

\* the description gives a token that a table matches
Contributes ==
  /\ args.description # NONE
  /\ \E p \in Range(TableOrder) : TableHit(tokenize(args.description[1]), p)

\* C28: the permission inferred from a name and a description stands no later
\* in the order DELETE, EXECUTE, WRITE, OUTPUT, READ, UNKNOWN than the one
\* inferred from the name alone, and is the same when the description is
\* absent, empty or gives no token that a table matches.
C28_DescriptionOnlyEscalates ==
  ret # NONE =>
    /\ Position(ret[1].permission) <= Position(inferPermission(args.name, NONE))
    /\ ~Contributes => ret[1].permission = inferPermission(args.name, NONE)

\* a description moved the permission of a name to an earlier table
C28_Witness ==
  /\ ret # NONE
  /\ Contributes
  /\ inferPermission(args.name, NONE) = "READ"
  /\ ret[1].permission = "EXECUTE"

\* a description with tokens, none of them matched, left the permission alone
C28_WitnessNoContribution ==
  /\ ret # NONE
  /\ args.description # NONE
  /\ tokenize(args.description[1]) # <<>>
  /\ ~Contributes
  /\ ret[1].permission = "WRITE"
-----------------------------------------------------------------------------
(* Properties of tokenize *)

IsDelimiter(c) == c \in {"_", "-"} \/ IsSpace(c)

\* the words of text cut at every delimiter (dropped) and between a lower-case
\* letter and the upper-case letter that follows it (both kept)
BoundaryWords(text) ==
  LET n == Len(text)
      Break(i) == i > 1 /\ IsLower(text[i - 1]) /\ IsUpper(text[i])
      Starts == {i \in 1..n : ~IsDelimiter(text[i])
                   /\ (i = 1 \/ IsDelimiter(text[i - 1]) \/ Break(i))}
      Ends == {i \in 1..n : ~IsDelimiter(text[i])
                   /\ (i = n \/ IsDelimiter(text[i + 1]) \/ Break(i + 1))}
  IN [k \in 1..Cardinality(Starts) |->
        toLowerCase(SubSeq(text, Nth(Starts, k), Nth(Ends, k)))]

\* C4: tokenize cuts at every lower-to-upper transition and at every underscore,
\* hyphen or white space, lower-cases and drops the empty pieces; so
\* getUserData is [get, user, data], LIST_FILES is [list, files], and a run of
\* upper-case letters is one token.
C4_TokenizeBoundaries ==
  ret # NONE =>
    /\ ret[1] = BoundaryWords(args.text)
    /\ args.text = getUserData =>
         ret[1] = << <<"g","e","t">>, <<"u","s","e","r">>, <<"d","a","t","a">> >>
    /\ args.text = LIST_FILES =>
         ret[1] = << <<"l","i","s","t">>, <<"f","i","l","e","s">> >>
    /\ (args.text # <<>> /\ \A i \in DOMAIN args.text : IsUpper(args.text[i])) =>
         ret[1] = <<toLowerCase(args.text)>>

C4_Witness ==
  /\ ret # NONE
  /\ args.text = getUserData
  /\ Len(ret[1]) = 3

-----------------------------------------------------------------------------
(* Properties of deduplication *)

SameNameAndSource(a, b) == a.name = b.name /\ a.source = b.source
SameName(a, b) == a.name = b.name

\* the positions of list that no earlier position equals under Same
FirstOccurrences(list, Same(_, _)) ==
  {i \in DOMAIN list : \A j \in 1..(i - 1) : ~Same(list[j], list[i])}

\* C6: deduplicateTools and deduplicateAgents drop an element exactly when an
\* earlier element has the same name and the same source, whatever characters
\* the names and sources hold; the survivors are the first occurrences, in
\* input order.
C6_DedupByNameAndSourcePair ==
  (ret # NONE /\ args.fn \in {"deduplicateTools", "deduplicateAgents"}) =>
    ret[1] = SubseqAt(args.list, FirstOccurrences(args.list, SameNameAndSource))

\* C7: a second application of a deduplication function returns its input, the
\* output of the first, unchanged; and no output holds two elements with the
\* same identity (name and source for tools and agents, name for servers).
C7_DedupIdempotent ==
  ret # NONE =>
    /\ args.round >= 2 => ret[1] = args.list
    /\ \A i, j \in DOMAIN ret[1] :
         i # j => IF args.fn = "deduplicateMcpServers"
                  THEN ~SameName(ret[1][i], ret[1][j])
                  ELSE ~SameNameAndSource(ret[1][i], ret[1][j])

\* a first application that dropped something, followed by a second
C7_Witness ==
  /\ ret # NONE
  /\ args.fn = "deduplicateTools"
  /\ args.round = 2
  /\ Len(args.first) = 3
  /\ Len(args.list) = 2
  /\ ret[1] = args.list

\* C8: deduplicateMcpServers keeps, of the servers sharing a name, the first
\* one only, whatever their command and source; servers with distinct names
\* are all kept, in input order.
C8_ServersByNameAlone ==
  (ret # NONE /\ args.fn = "deduplicateMcpServers") =>
    ret[1] = SubseqAt(args.list, FirstOccurrences(args.list, SameName))

\* two servers of one name but different command and source, and one more
C8_Witness ==
  /\ ret # NONE
  /\ args.fn = "deduplicateMcpServers"
  /\ args.round = 1
  /\ Len(args.list) = 3
  /\ args.list[1].name = args.list[2].name
  /\ args.list[1].command # args.list[2].command
  /\ args.list[1].source # args.list[2].source
  /\ args.list[3].name # args.list[1].name
  /\ ret[1] = <<args.list[1], args.list[3]>>

-----------------------------------------------------------------------------
(* Properties of the assembly *)

\* C11: two orderings of the same detected tools, agents and servers give,
\* after deduplication and createManifest, the same tools, agents and
\* mcp_servers sequences and the same summary.
C11_AssemblyIgnoresInputOrder ==
  Len(ret) = 2 =>
    /\ ret[1].tools = ret[2].tools
    /\ ret[1].agents = ret[2].agents
    /\ ret[1].mcp_servers = ret[2].mcp_servers
    /\ ret[1].summary = ret[2].summary

\* the tier a --risk value names, in any case; none for any other value
TierNamed(value) ==
  IF value \in {<<"h","i","g","h">>, <<"H","i","g","h">>, <<"H","I","G","H">>} THEN SOME(HIGH)
  ELSE IF value \in {<<"m","e","d","i","u","m">>, <<"M","e","d","i","u","m">>, <<"M","E","D","I","U","M">>} THEN SOME(MEDIUM)
  ELSE IF value \in {<<"l","o","w">>, <<"L","o","w">>, <<"L","O","W">>} THEN SOME(LOW)
  ELSE NONE

\* whether the options select the tool
Selected(tool, opts) ==
  /\ opts.framework # NONE => tool.framework = opts.framework[1]
  /\ opts.risk # NONE => TierNamed(opts.risk[1]) = SOME(tool.risk)

C12_WitnessUnknownRisk ==
  /\ ret # NONE
  /\ args.options.risk = SOME(<<"s","e","v","e","r","e">>)
  /\ args.tools # <<>>
  /\ ret[1].tools = <<>>


\* the manifest of the same result assembled without --framework and --risk
Unfiltered ==
  createManifest(Assembled([tools |-> args.tools, agents |-> args.agents,
                            mcpServers |-> args.mcpServers], NoOptions),
                 absolutePath, 1, 0)

\* C30: whatever --framework and --risk are, the agents, the servers,
\* summary.total_agents, summary.total_mcp_servers and summary.files_scanned
\* of the manifest are those of the manifest assembled from the same result
\* without filters.
C30_FiltersActOnToolsOnly ==
  ret # NONE =>
    \A plain \in {Unfiltered} :
      /\ ret[1].agents = plain.agents
      /\ ret[1].mcp_servers = plain.mcp_servers
      /\ ret[1].summary.total_agents = plain.summary.total_agents
      /\ ret[1].summary.total_mcp_servers = plain.summary.total_mcp_servers
      /\ ret[1].summary.files_scanned = plain.summary.files_scanned

\* every tool filtered out by a framework no agent has, the agents and the
\* servers still there
C30_Witness ==
  /\ ret # NONE
  /\ args.options.framework = SOME("custom")
  /\ args.tools # <<>>
  /\ ret[1].tools = <<>>
  /\ Len(ret[1].agents) = 2
  /\ \A i \in DOMAIN ret[1].agents : ret[1].agents[i].framework # "custom"
  /\ Len(ret[1].mcp_servers) = 2
  /\ ret[1].summary.total_agents = 2
-----------------------------------------------------------------------------
(* Properties of the scan pipeline *)

\* the permission -> risk table as the specification states it
RiskTable ==
  [p \in Permissions |->
     IF p \in {"DELETE", "EXECUTE"} THEN HIGH
     ELSE IF p \in {"WRITE", "UNKNOWN"} THEN MEDIUM
     ELSE LOW]

FollowsRiskTable(tool) ==
  tool.permission \in Permissions /\ tool.risk = RiskTable[tool.permission]

ManifestTools == IF manifest = NONE THEN <<>> ELSE manifest[1].tools

\* C1: every tool a detector has emitted, and every tool of the manifest, has
\* the risk the table gives its permission; so has a tool built from
\* createTool's defaults alone.
C1_RiskFollowsPermission ==
  /\ \A t \in Range(result.tools) \cup Range(ManifestTools) : FollowsRiskTable(t)
  /\ FollowsRiskTable(createTool([name |-> <<"x">>, source |-> <<"f",":","1">>, line |-> 1]))

\* tools of all three risks, emitted by three detectors, in a manifest
C1_Witness ==
  /\ manifest # NONE
  /\ \A r \in RiskLevels : \E t \in Range(ManifestTools) : t.risk = r
  /\ \E t \in Range(ManifestTools) : t.permission = "UNKNOWN"

\* C5: isHighRisk holds of DELETE and EXECUTE only, which are the permissions
\* inferRisk rates HIGH; so getHighRiskTools returns the tools whose
\* permission is DELETE or EXECUTE, in order.
C5_HighRiskIsDeleteOrExecute ==
  /\ \A p \in Permissions :
       /\ isHighRisk(p) <=> p \in {"DELETE", "EXECUTE"}
       /\ isHighRisk(p) <=> inferRisk(p) = HIGH
  /\ LET DeleteOrExecute(t) == t.permission \in {"DELETE", "EXECUTE"}
     IN getHighRiskTools(result.tools) = SelectSeq(result.tools, DeleteOrExecute)

C5_Witness ==
  /\ \E t \in Range(result.tools) : t.permission = "DELETE"
  /\ \E t \in Range(result.tools) : t.permission = "EXECUTE"
  /\ \E t \in Range(result.tools) : t.permission = "WRITE"
  /\ Len(getHighRiskTools(result.tools)) < Len(result.tools)

RECURSIVE SumOver(_, _)
SumOver(f, S) ==
  IF S = {} THEN 0
  ELSE LET x == CHOOSE y \in S : TRUE IN f[x] + SumOver(f, S \ {x})

CountWhere(seq, Test(_)) == Cardinality({i \in DOMAIN seq : Test(seq[i])})

\* C9: the summary of a manifest agrees with the collections it ships with:
\* the three totals are the lengths, each by_risk, by_permission and
\* by_framework bucket is the number of the manifest's tools with that value,
\* and each group of buckets sums to total_tools.
C9_SummaryMatchesCollections ==
  manifest # NONE =>
    LET m == manifest[1]
        s == m.summary
    IN /\ s.total_tools = Len(m.tools)
       /\ s.total_agents = Len(m.agents)
       /\ s.total_mcp_servers = Len(m.mcp_servers)
       /\ DOMAIN s.by_risk = RiskLevels
       /\ DOMAIN s.by_permission = Permissions
       /\ DOMAIN s.by_framework = {t.framework : t \in Range(m.tools)}
       /\ \A r \in RiskLevels :
            LET Has(t) == t.risk = r IN s.by_risk[r] = CountWhere(m.tools, Has)
       /\ \A p \in Permissions :
            LET Has(t) == t.permission = p IN s.by_permission[p] = CountWhere(m.tools, Has)
       /\ \A f \in DOMAIN s.by_framework :
            LET Has(t) == t.framework = f IN s.by_framework[f] = CountWhere(m.tools, Has)
       /\ SumOver(s.by_risk, RiskLevels) = s.total_tools
       /\ SumOver(s.by_permission, Permissions) = s.total_tools
       /\ SumOver(s.by_framework, DOMAIN s.by_framework) = s.total_tools

\* a filtered manifest with tools of two risks and two frameworks, an agent
\* and a server
C9_Witness ==
  /\ manifest # NONE
  /\ options.framework # NONE
  /\ manifest[1].summary.total_tools >= 2
  /\ manifest[1].summary.by_risk[HIGH] >= 1
  /\ manifest[1].summary.by_risk[LOW] >= 1
  /\ manifest[1].summary.total_agents >= 1
  /\ manifest[1].summary.total_mcp_servers >= 1

\* seq holds the same elements as other, each as often
IsPermutation(seq, other) ==
  /\ Len(seq) = Len(other)
  /\ \A x \in Range(seq) \cup Range(other) :
       Cardinality({i \in DOMAIN seq : seq[i] = x})
         = Cardinality({i \in DOMAIN other : other[i] = x})

RiskRank(t) == IF t.risk = HIGH THEN 0 ELSE IF t.risk = MEDIUM THEN 1 ELSE 2

\* C10: in a manifest the tools go HIGH, then MEDIUM, then LOW, tools of one
\* risk in non-decreasing name order; agents and servers are in non-decreasing
\* name order; and each collection is a permutation of the deduplicated,
\* filtered collection it was sorted from.
C10_ManifestOrder ==
  manifest # NONE =>
    LET m == manifest[1]
    IN /\ \A i, j \in DOMAIN m.tools :
            i < j =>
              /\ RiskRank(m.tools[i]) <= RiskRank(m.tools[j])
              /\ m.tools[i].risk = m.tools[j].risk =>
                   localeCompare(m.tools[i].name, m.tools[j].name) <= 0
       /\ \A i, j \in DOMAIN m.agents :
            i < j => localeCompare(m.agents[i].name, m.agents[j].name) <= 0
       /\ \A i, j \in DOMAIN m.mcp_servers :
            i < j => localeCompare(m.mcp_servers[i].name, m.mcp_servers[j].name) <= 0
       /\ IsPermutation(m.tools, result.tools)
       /\ IsPermutation(m.agents, result.agents)
       /\ IsPermutation(m.mcp_servers, result.mcpServers)

\* sorting moved something: a HIGH tool whose name comes after that of a LOW
\* tool, two tools of one risk, and servers that arrived out of name order
C10_Witness ==
  /\ manifest # NONE
  /\ manifest[1].tools # result.tools
  /\ manifest[1].mcp_servers # result.mcpServers
  /\ \E i, j \in DOMAIN manifest[1].tools :
       /\ i < j
       /\ manifest[1].tools[i].risk = HIGH
       /\ manifest[1].tools[j].risk = LOW
       /\ localeCompare(manifest[1].tools[i].name, manifest[1].tools[j].name) > 0
  /\ \E i, j \in DOMAIN manifest[1].tools :
       /\ i < j
       /\ manifest[1].tools[i].risk = manifest[1].tools[j].risk
       /\ manifest[1].tools[i].name # manifest[1].tools[j].name


\* the catch block of scanCommand has run for an error of this message
Reported(message) ==
  \E i \in DOMAIN console :
    console[i] = [stream |-> "stderr", what |-> "error", message |-> message]

\* a manifest was printed
PrintedManifest ==
  \E i \in DOMAIN console : console[i].what \in {"json", "results", "output_path"}

\* the scan met a detector that threw, or a file that could not be read
MetFault ==
  \/ \E i \in DOMAIN console : console[i].what = "detector_error"
  \/ pc # "walk" /\ \E i \in DOMAIN args.tree : ~args.tree[i].readable

\* C20: a scan whose directory traversal failed has built, printed and
\* written no manifest, has reported the error and has exited with status 1;
\* a scan that has exited without a manifest is one whose traversal failed;
\* and a scan that met a throwing detector or an unreadable file has not
\* exited unless the traversal failed or a manifest exists.
C20_OnlyTraversalFailureAborts ==
  /\ Reported("traversal") =>
        /\ manifest = NONE
        /\ outFile = NONE
        /\ ~PrintedManifest
        /\ exitCode = SOME(1)
        /\ pc = "exited"
  /\ (exitCode # NONE /\ manifest = NONE) => Reported("traversal")
  /\ (MetFault /\ pc = "exited") => (Reported("traversal") \/ manifest # NONE)
  /\ ~Reported("read")

\* a scan that exited on a failed traversal
C20_Witness == Reported("traversal") /\ exitCode = SOME(1)

\* a scan that went on to its manifest past a detector that threw and a file
\* that could not be read
C20_WitnessFaultsSurvived ==
  /\ manifest # NONE
  /\ \E i \in DOMAIN console : console[i].what = "detector_error"
  /\ \E i \in DOMAIN args.tree : ~args.tree[i].readable

\* the console lines of one kind, as positions
Lines(what) == {i \in DOMAIN console : console[i].what = what}

\* what holds of a scan at the write and after it
AtTheWrite ==
  /\ pc = "write" /\ ~options.json =>
       /\ Len(console) >= 2
       /\ console[Len(console) - 1]
            = [stream |-> "stdout", what |-> "results", manifest |-> manifest[1]]
       /\ console[Len(console)]
            = [stream |-> "stdout", what |-> "output_path", path |-> options.output[1]]
       /\ outFile = NONE
  /\ Reported("write") /\ ~options.json =>
       /\ \E i \in Lines("output_path") : \A j \in Lines("error") : i < j
       /\ console[Len(console)].what = "error"
       /\ exitCode = SOME(1)
       /\ outFile = NONE
  /\ pc \in {"write", "done"} \/ Reported("write") => manifest # NONE
  /\ outFile # NONE =>
       /\ outFile = manifest
       /\ \E i \in DOMAIN console :
            console[i].what \in {"results", "json"} /\ console[i].manifest = manifest[1]

Yielded(k) ==
  IF <<k, 1>> \in args.throwing THEN <<>>
  ELSE IF files[k].extension = <<".","j","s","o","n">> THEN McpConfigDetect(files[k]).mcpServers
  ELSE IF files[k].extension = <<".","t","s">> THEN TsDetectMcpServers(files[k])
  ELSE <<>>

\* the McpServer instantiations without a name field in the k-th file
Unnamed(k) ==
  {p \in DOMAIN files[k].content :
     /\ <<k, 1>> \notin args.throwing
     /\ files[k].content[p].k = "ts_mcp_server"
     /\ files[k].content[p].name = NONE}

\* the servers of the manifest with a name
Named(name) ==
  LET Has(server) == server.name = name IN SelectSeq(manifest[1].mcp_servers, Has)

\* C29: an McpServer instantiation without a name field is found under the
\* name 'mcp-server-<line>'; and of the servers of one name that the files of
\* a scan yield, whatever their files and whether found in code or in a
\* configuration file, the manifest holds exactly the first of the first file
\* processed that yields one.
C29_ServersCollapseByName ==
  manifest # NONE =>
    /\ \A k \in DOMAIN files : \A p \in Unnamed(k) :
         LET line == getLineNumber(files[k].content, p)
         IN \E server \in Range(Yielded(k)) :
              /\ server.name = <<"m","c","p","-","s","e","r","v","e","r","-">> \o ToDecimal(line)
              /\ server.source = SourceAt(files[k], line)
    /\ \A k \in DOMAIN files : \A server \in Range(Yielded(k)) :
         LET Has(other) == other.name = server.name
             first == Min({j \in DOMAIN files : SelectSeq(Yielded(j), Has) # <<>>})
         IN Named(server.name) = <<SelectSeq(Yielded(first), Has)[1]>>
    /\ Len(manifest[1].mcp_servers)
         = Cardinality({server.name : server \in UNION {Range(Yielded(k)) : k \in DOMAIN files}})

\* two files with an unnamed instantiation on one line: one server, from the
\* file processed first
C29_Witness ==
  /\ manifest # NONE
  /\ Len(files) = 2
  /\ \E p \in Unnamed(1) : \E q \in Unnamed(2) :
       /\ getLineNumber(files[1].content, p) = getLineNumber(files[2].content, q)
       /\ LET line == getLineNumber(files[1].content, p)
          IN /\ Len(Named(<<"m","c","p","-","s","e","r","v","e","r","-">> \o ToDecimal(line))) = 1
             /\ Named(<<"m","c","p","-","s","e","r","v","e","r","-">> \o ToDecimal(line))[1].source = SourceAt(files[1], line)

\* a server of a configuration file, processed first, and one of source code
\* under the same name: the configured one is in the manifest
C29_WitnessCodeAndConfig ==
  /\ manifest # NONE
  /\ Len(files) = 2
  /\ files[1].extension = <<".","j","s","o","n">>
  /\ files[2].extension = <<".","t","s">>
  /\ \E a \in Range(Yielded(1)) : \E b \in Range(Yielded(2)) :
       /\ a.name = b.name
       /\ Named(a.name) = <<a>>
       /\ a # b
-----------------------------------------------------------------------------
(* Properties of the router *)

\* the extension as register stores it
Dotted(ext) == IF ext[1] = "." THEN ext ELSE <<".">> \o ext

\* the detectors registered for the file's extension: per registration, in
\* order, once per extension of the registration that is the file's
RECURSIVE RegisteredFor(_, _)
RegisteredFor(registrations, file) ==
  IF registrations = <<>> THEN <<>>
  ELSE LET r == Head(registrations)
           Hit(ext) == Dotted(ext) = file.extension
       IN [i \in 1..Len(SelectSeq(r.extensions, Hit)) |-> r.detector]
            \o RegisteredFor(Tail(registrations), file)

\* the batches of the invocations from position on that do not throw,
\* concatenated, and the detectors' state after them
RECURSIVE SucceededBatches(_, _, _, _, _)
SucceededBatches(calls, file, state, throws, position) ==
  IF position > Len(calls) THEN [result |-> EmptyResult, state |-> state]
  ELSE IF position \in throws
    THEN SucceededBatches(calls, file, state, throws, position + 1)
    ELSE LET r == Detect(calls[position], file, state)
             rest == SucceededBatches(calls, file, r.state, throws, position + 1)
         IN [result |-> Concat(r.batch, rest.result), state |-> rest.state]

ThrowsAt(k) == {p \in 1..2 : <<k, p>> \in args.throwing}

\* what the first k files contribute
RECURSIVE ExpectedAfter(_)
ExpectedAfter(k) ==
  IF k = 0 THEN [result |-> EmptyResult, state |-> NewDetectors]
  ELSE LET before == ExpectedAfter(k - 1)
           file == args.files[k]
           now == SucceededBatches(RegisteredFor(args.registrations, file), file,
                                   before.state, ThrowsAt(k), 1)
       IN [result |-> Concat(before.result, now.result), state |-> now.state]

C14_DetectorFailuresIsolated ==
  /\ \A k \in DOMAIN ret.calls :
       LET registered == RegisteredFor(args.registrations, args.files[k])
       IN /\ Len(ret.calls[k]) = Len(registered)
          /\ ret.errors[k] =
               SubseqAt(registered, ThrowsAt(k) \cap DOMAIN registered)
  /\ ret.result = ExpectedAfter(Len(ret.calls)).result

\* the first detector of the first file threw; the second detector of that
\* file and the second file have contributed
C14_Witness ==
  /\ args.throwing = {<<1, 1>>}
  /\ Len(args.files) = 2
  /\ Len(ret.calls) = 2
  /\ Len(ret.calls[1]) = 2
  /\ ret.errors[1] = <<ret.calls[1][1]>>
  /\ ret.errors[2] = <<>>
  /\ Len(ret.result.tools) = 2

-----------------------------------------------------------------------------
(* Properties of the detectors *)

\* C15: the batch detect returns for a file is the batch a new detector
\* returns for it, whatever calls came before.
C15_DetectIsPureInTheFile ==
  \A k \in DOMAIN ret.batches :
    ret.batches[k] = Detect(args.detector, args.files[k], NewDetectors).batch

\* the file's one pattern is a decorated def of delete_user
OnlyDecoratedDeleteUser(file) ==
  /\ \E i \in DOMAIN file.content :
       /\ file.content[i].k = "py_def"
       /\ file.content[i].decorator \in {"@tool", "@tool()", "@mcp.tool()"}
       /\ file.content[i].name = <<"d","e","l","e","t","e","_","u","s","e","r">>
       /\ \A j \in DOMAIN file.content \ {i} : file.content[j].k = "text"

\* C16: detect on a .py file whose one pattern is a decorated function
\* delete_user returns one tool, delete_user / DELETE / HIGH, with source
\* <relativePath>:<line of the decorator>, and no agent and no server.
C16_DecoratedDeleteUserIsOneTool ==
  \A k \in DOMAIN ret.batches :
    (args.detector = "python" /\ OnlyDecoratedDeleteUser(args.files[k])) =>
      LET batch == ret.batches[k]
          file == args.files[k]
      IN /\ Len(batch.tools) = 1
         /\ batch.agents = <<>>
         /\ batch.mcpServers = <<>>
         /\ batch.tools[1].name = <<"d","e","l","e","t","e","_","u","s","e","r">>
         /\ batch.tools[1].permission = "DELETE"
         /\ batch.tools[1].risk = HIGH
         /\ batch.tools[1].line = Len(file.content)
         /\ batch.tools[1].source
              = file.relativePath \o <<":">> \o ToDecimal(Len(file.content))


\* the decorator of the file's one decorated def
DecoratorOf(file) ==
  (CHOOSE item \in Range(file.content) : item.k = "py_def").decorator

\* the framework tags of the batch's tools, in order
Tags(batch) == [i \in DOMAIN batch.tools |-> batch.tools[i].framework]

\* C16, as the code has it: detect on a .py file whose one pattern is a
\* decorated function delete_user returns no agent and no server, and tools
\* that are all delete_user / DELETE / HIGH with source
\* <relativePath>:<line of the decorator>: one tool (custom) for @tool, one
\* (mcp) for @mcp.tool(), and two (custom, then mcp) for @tool(...), of which
\* deduplication keeps the first.
C16_DecoratedDeleteUserTools ==
  \A k \in DOMAIN ret.batches :
    (args.detector = "python" /\ OnlyDecoratedDeleteUser(args.files[k])) =>
      LET batch == ret.batches[k]
          file == args.files[k]
      IN /\ batch.agents = <<>>
         /\ batch.mcpServers = <<>>
         /\ Tags(batch) = (CASE DecoratorOf(file) = "@tool" -> <<"custom">>
                             [] DecoratorOf(file) = "@tool()" -> <<"custom", "mcp">>
                             [] DecoratorOf(file) = "@mcp.tool()" -> <<"mcp">>)
         /\ \A i \in DOMAIN batch.tools :
              /\ batch.tools[i].name = <<"d","e","l","e","t","e","_","u","s","e","r">>
              /\ batch.tools[i].permission = "DELETE"
              /\ batch.tools[i].risk = HIGH
              /\ batch.tools[i].line = Len(file.content)
              /\ batch.tools[i].source
                   = file.relativePath \o <<":">> \o ToDecimal(Len(file.content))
         /\ deduplicateTools(batch.tools) = <<batch.tools[1]>>

\* every decorator form has been through detect, the decorator on a line
\* other than the first
C16_Witness ==
  /\ args.detector = "python"
  /\ Len(ret.batches) = 3
  /\ \A k \in 1..3 : OnlyDecoratedDeleteUser(args.files[k])
  /\ {DecoratorOf(args.files[k]) : k \in 1..3} = {"@tool", "@tool()", "@mcp.tool()"}
  /\ ret.batches[3].tools[1].line = 3

\* the first line of the docstring of a def of that name in the file
DocLinesOf(file, name) ==
  {trim(firstPiece(trim(file.content[i].doc[1]), "\n")) :
     i \in {j \in DOMAIN file.content :
              /\ file.content[j].k = "py_def"
              /\ file.content[j].name = name
              /\ file.content[j].doc # NONE}}

\* the description and the permission of each tool of a batch
Described(batch) ==
  [i \in DOMAIN batch.tools |-> <<batch.tools[i].description, batch.tools[i].permission>>]

\* C23: whatever files the Python detector saw before, a tool it emits for a
\* file has a description only if that file defines a function of the tool's
\* name with a docstring, the description being the docstring's first line;
\* and the descriptions and permissions of the file's tools are those a new
\* detector gives.
C23_DescriptionsFromThisFileOnly ==
  \A k \in DOMAIN ret.batches :
    args.detector = "python" =>
      /\ \A i \in DOMAIN ret.batches[k].tools :
           LET tool == ret.batches[k].tools[i]
           IN /\ tool.description # NONE =>
                   tool.description[1] \in DocLinesOf(args.files[k], tool.name)
              /\ tool.permission = inferPermission(tool.name, tool.description)
      /\ Described(ret.batches[k])
           = Described(Detect("python", args.files[k], NewDetectors).batch)

\* a file with an undocumented delete_user after a file that documents one
C23_Witness ==
  /\ args.detector = "python"
  /\ Len(ret.batches) >= 2
  /\ DocLinesOf(args.files[1], <<"d","e","l","e","t","e","_","u","s","e","r">>) # {}
  /\ DocLinesOf(args.files[2], <<"d","e","l","e","t","e","_","u","s","e","r">>) = {}
  /\ \E i \in DOMAIN ret.batches[2].tools :
       /\ ret.batches[2].tools[i].name = <<"d","e","l","e","t","e","_","u","s","e","r">>
       /\ ret.batches[2].tools[i].description = NONE

\* the .tool("name", ...) declarations of a file, in order
ServerToolsOf(file) == SelectSeq(file.content, TsServerTool)

\* C24: the tool emitted for a .tool("name", ...) declaration has as its
\* description the string value of the first description: field within the
\* 500 characters from the match, has none only when there is no such field,
\* and has the permission inferred from the name and that description.
C24_DescriptionIsFirstField ==
  \A k \in DOMAIN ret.batches :
    args.detector = "typescript" =>
      LET declared == ServerToolsOf(args.files[k])
          tools == ret.batches[k].tools
      IN /\ Len(tools) = Len(declared)
         /\ \A i \in DOMAIN tools :
              LET first == IF declared[i].descriptions = <<>> THEN NONE
                           ELSE SOME(declared[i].descriptions[1])
              IN /\ tools[i].name = declared[i].name
                 /\ tools[i].description = first
                 /\ tools[i].permission = inferPermission(declared[i].name, first)
-----------------------------------------------------------------------------
(* Properties of the configuration detector *)

\* a JSON object with an object as its server map
HasServerMap(json) ==
  /\ json.valid
  /\ json.top = "object"
  /\ json.key \in {"mcpServers", "servers"}
  /\ json.map = "object"

\* a string property that is present and not empty
Given(value) == value # NONE /\ value[1] # <<>>

\* the servers one entry of the server map stands for
ServersOfEntry(entry, relativePath) ==
  IF entry.kind = "object" /\ Given(entry.command)
  THEN <<[name |-> entry.name, command |-> entry.command[1], args |-> entry.args,
          env |-> entry.env, source |-> relativePath]>>
  ELSE IF entry.kind = "object" /\ Given(entry.url)
  THEN <<[name |-> entry.name, command |-> entry.url[1], source |-> relativePath]>>
  ELSE <<>>

ScenarioB ==
  FileInfo(<<"m","c","p",".","j","s","o","n">>,
           <<JsonObject("mcpServers", <<Entry(<<"f","s">>, SOME(<<"n","p","x">>), NONE, SOME(<<<<"x">>>>))>>)>>)

\* C17: for a recognised configuration file with a server map, the batch has
\* no tools and no agents and, in the order of the map, one server per entry
\* named by the entry's key: with the entry's command, args and env when the
\* entry is an object with a (non-empty) command, with the url as its command
\* when it has no command but a (non-empty) url, and none when it has neither
\* or is no object; so mcp.json holding
\* {"mcpServers": {"fs": {"command": "npx", "args": ["x"]}}} gives exactly the
\* one server fs with command npx.
C17_OneServerPerConfiguredEntry ==
  ret # NONE =>
    /\ (isMcpConfigFile(args) /\ HasServerMap(JsonOf(args))) =>
         /\ ret[1].tools = <<>>
         /\ ret[1].agents = <<>>
         /\ ret[1].mcpServers =
              Flatten([i \in DOMAIN JsonOf(args).entries |->
                         ServersOfEntry(JsonOf(args).entries[i], args.relativePath)])
    /\ args = ScenarioB =>
         /\ ret[1].tools = <<>>
         /\ ret[1].agents = <<>>
         /\ Len(ret[1].mcpServers) = 1
         /\ ret[1].mcpServers[1].name = <<"f","s">>
         /\ ret[1].mcpServers[1].command = <<"n","p","x">>

\* a map with an entry of each form has been read: a command beside a url, a
\* url alone and a value that is no object
C17_Witness ==
  /\ ret # NONE
  /\ isMcpConfigFile(args)
  /\ HasServerMap(JsonOf(args))
  /\ \E i \in DOMAIN JsonOf(args).entries :
       /\ JsonOf(args).entries[i].name = <<"b","o","t","h">>
       /\ \E j \in DOMAIN JsonOf(args).entries :
            JsonOf(args).entries[j].kind # "object"
  /\ Len(ret[1].mcpServers) = 1

C17_WitnessScenarioB == ret # NONE /\ args = ScenarioB

\* the file's text is no JSON, or its value is no object with an object as
\* its server map
Malformed(json) == ~json.valid \/ json.top # "object" \/ json.map # "object"

\* C18: detect returns for every recognised configuration file, and when the
\* content is not valid JSON, or parses to null, a number, an array, or an
\* object whose server map is not an object, the batch it returns is empty.
C18_MalformedConfigIsEmptyBatch ==
  ret # NONE =>
    ((isMcpConfigFile(args) /\ Malformed(JsonOf(args))) => ret[1] = EmptyResult)

\* what does hold: every malformed content except an array as the
\* server map gives the empty batch
C18_EmptyUnlessArrayMap ==
  ret # NONE =>
    ((isMcpConfigFile(args) /\ Malformed(JsonOf(args))
        /\ ~(JsonOf(args).valid /\ JsonOf(args).top = "object" /\ JsonOf(args).map = "array"))
       => ret[1] = EmptyResult)

\* the file's name is a known configuration filename or its path matches a
\* known configuration path pattern
KnownByName(file) ==
  \/ lastPiece(file.relativePath, "/") \in MCP_CONFIG_FILES
  \/ MatchesMcpPathPattern(file.relativePath)

HasCommandField(json) == \E i \in DOMAIN json.entries : json.entries[i].command # NONE

\* C22: a .json file whose name is no known configuration filename, whose
\* path matches no known configuration path pattern and whose content does
\* not hold a server-map key (mcpServers or servers) together with a command
\* field gives an empty batch.
C22_UnrecognisedJsonIsEmptyBatch ==
  ret # NONE =>
    ((/\ ~KnownByName(args)
      /\ ~(JsonOf(args).key \in {"mcpServers", "servers"} /\ HasCommandField(JsonOf(args))))
       => ret[1] = EmptyResult)

\* C22, as the code has it: the content condition is that the text holds
\* mcpServers, or holds both "servers" and "command"; a .json file that is
\* known neither by name nor by path and whose content meets neither gives an
\* empty batch.
C22_UnrecognisedByCodeIsEmptyBatch ==
  ret # NONE =>
    ((/\ ~KnownByName(args)
      /\ JsonOf(args).key # "mcpServers"
      /\ ~(JsonOf(args).key = "servers" /\ HasCommandField(JsonOf(args))))
       => ret[1] = EmptyResult)

\* a file known neither by name nor by path whose valid content has a servers
\* map with a url entry and no command field
C22_Witness ==
  /\ ret # NONE
  /\ ~KnownByName(args)
  /\ HasServerMap(JsonOf(args))
  /\ JsonOf(args).key = "servers"
  /\ \E i \in DOMAIN JsonOf(args).entries : Given(JsonOf(args).entries[i].url)
  /\ ~HasCommandField(JsonOf(args))
  /\ ret[1] = EmptyResult
-----------------------------------------------------------------------------
(* Properties of walkDirectory *)

\* the rules in force: those of a .gitignore that is there and readable
RulesInForce(gitignore) == IF gitignore.state = "present" THEN gitignore.rules ELSE {}

\* a file that has one of the extensions, is not on the baseline ignore list,
\* is not ignored by the rules in force, and can be read
Eligible(entry, gitignore) ==
  /\ extname(entry.relativePath) \in ALL_EXTENSIONS
  /\ ~BaselineIgnored(entry.relativePath)
  /\ Range(Segments(entry.relativePath)) \cap RulesInForce(gitignore) = {}
  /\ entry.readable

EligibleFiles(tree, gitignore) ==
  {FileInfo(tree[i].relativePath, tree[i].content) :
     i \in {j \in DOMAIN tree : Eligible(tree[j], gitignore)}}

\* C19: walkDirectory returns whether or not .gitignore is there and readable
\* and whether or not every file can be read, and the files it returns are
\* exactly those of the tree that have one of the extensions, are ignored
\* neither by the baseline list nor by the rules of a readable .gitignore, and
\* were read, each with its content.
C19_WalkReturnsEligibleFiles ==
  ret # NONE =>
    /\ ~ret[1].threw
    /\ Range(ret[1].files) = EligibleFiles(args.tree, args.gitignore)

\* what does hold: the same of the files outside hidden directories, and no
\* hidden file or file of a hidden directory is ever returned
C19_EligibleUnlessHidden ==
  ret # NONE =>
    /\ ~ret[1].threw
    /\ Range(ret[1].files) =
         {f \in EligibleFiles(args.tree, args.gitignore) : ~Hidden(f.relativePath)}

\* a walk without a readable .gitignore over a file that cannot be read and
\* one that can
C19_PartialWalk ==
  /\ ret # NONE
  /\ args.gitignore.state # "present"
  /\ \E i \in DOMAIN args.tree :
       ~args.tree[i].readable /\ extname(args.tree[i].relativePath) \in ALL_EXTENSIONS
  /\ Len(ret[1].files) = 1
-----------------------------------------------------------------------------
(* Properties of the Go detector's capabilities *)

\* the file has the capabilities import or names capabilities.Type
PassesGate(file) ==
  \E i \in DOMAIN file.content :
    \/ file.content[i].k = "go_import" /\ file.content[i].capabilities
    \/ file.content[i].k = "go_cap_type" /\ file.content[i].qualified

\* the declarations of a kind with a prefix
DeclsOf(file, kind, prefix) ==
  {i \in DOMAIN file.content : file.content[i].k = kind /\ file.content[i].prefix = prefix}

TypePrefixes(file) ==
  {file.content[i].prefix : i \in {j \in DOMAIN file.content : file.content[j].k = "go_cap_type"}}

\* the tools of the batch that carry a version field: those of capabilities
CapabilityTools(batch) ==
  {i \in DOMAIN batch.tools : "version" \in DOMAIN batch.tools[i]}

\* the prefix whose Type declaration is on the tool's line
PrefixOf(file, tool) == file.content[tool.line].prefix

\* C21: in a Go file that passes the capabilities gate there is exactly one
\* capability tool per distinct prefix of a Type declaration, named by the
\* string declared for that prefix; its version is the value of a Version
\* declaration of the prefix wherever that stands in the file, and absent
\* when there is none; its parameters are those of an Input struct of the
\* prefix when there is one, and absent when there is none; so Version and
\* Input declarations of a prefix without Type declaration give no tool and
\* change none.
C21_OneCapabilityToolPerPrefix ==
  (ret # NONE /\ PassesGate(args)) =>
    LET batch == ret[1]
        caps == CapabilityTools(batch)
    IN /\ Cardinality(caps) = Cardinality(TypePrefixes(args))
       /\ \A i \in caps : args.content[batch.tools[i].line].k = "go_cap_type"
       /\ {PrefixOf(args, batch.tools[i]) : i \in caps} = TypePrefixes(args)
       /\ \A i \in caps :
            LET tool == batch.tools[i]
                prefix == PrefixOf(args, tool)
                versions == DeclsOf(args, "go_cap_version", prefix)
                inputs == DeclsOf(args, "go_input", prefix)
            IN /\ tool.name = args.content[tool.line].name
               /\ tool.version = NONE <=> versions = {}
               /\ tool.version # NONE =>
                    tool.version[1] \in {args.content[j].version : j \in versions}
               /\ tool.parameters = NONE <=> inputs = {}
               /\ tool.parameters # NONE =>
                    \E j \in inputs :
                      \A json \in DOMAIN tool.parameters[1] :
                        \E f \in Range(args.content[j].fields) :
                          f.json = json /\ tool.parameters[1][json].description = f.fieldName

\* a Version declared before its Type, and a Version and an Input struct of a
\* prefix that has no Type
C21_Witness ==
  /\ ret # NONE
  /\ PassesGate(args)
  /\ Len(args.content) = 3
  /\ args.content[1].k = "go_cap_version"
  /\ args.content[2].k = "go_cap_type"
  /\ args.content[1].prefix = args.content[2].prefix
  /\ args.content[3].k \in {"go_cap_version", "go_input"}
  /\ args.content[3].prefix = <<"P","u","t">>
  /\ Len(ret[1].tools) = 1
  /\ ret[1].tools[1].version # NONE
-----------------------------------------------------------------------------
(* Properties of the Python detector's FastMCP pass *)

\* the positions of the statements X = FastMCP(, in order
Bindings(file) ==
  SubseqAt([i \in DOMAIN file.content |-> i],
           {i \in DOMAIN file.content : file.content[i].k = "py_fastmcp"})

\* the positions of the defs decorated @X.tool(...), in order
DecoratedBy(file, instance) ==
  SubseqAt([i \in DOMAIN file.content |-> i],
           {i \in DOMAIN file.content :
              /\ file.content[i].k = "py_def"
              /\ file.content[i].decorator = "@" \o instance \o ".tool()"})

\* name and line of the tools of a batch tagged fastmcp, in order
FastMcpTools(batch) ==
  LET Tagged(tool) == tool.framework = "fastmcp"
      tagged == SelectSeq(batch.tools, Tagged)
  IN [i \in DOMAIN tagged |-> <<tagged[i].name, tagged[i].line>>]

\* C25: the tools tagged fastmcp are, for each statement X = FastMCP( of the
\* file in order (a name bound twice counting twice), the functions decorated
\* @X.tool(...) anywhere in the file, before or after the binding; a
\* decorator qualified by a name that is never bound gives no such tool.
C25_BindThenMatch ==
  ret # NONE =>
    FastMcpTools(ret[1]) =
      Flatten([b \in DOMAIN Bindings(args) |->
                 LET decorated == DecoratedBy(args, args.content[Bindings(args)[b]].inst)
                 IN [d \in DOMAIN decorated |->
                       <<args.content[decorated[d]].name,
                         getLineNumber(args.content, decorated[d])>>]])

\* a decorator before its binding, beside a decorator of a name never bound
C25_Witness ==
  /\ ret # NONE
  /\ Len(args.content) = 3
  /\ args.content[1].k = "py_def" /\ args.content[1].decorator = "@mcp.tool()"
  /\ args.content[2].k = "py_def" /\ args.content[2].decorator = "@app.tool()"
  /\ args.content[3] = [k |-> "py_fastmcp", inst |-> "mcp"]
  /\ FastMcpTools(ret[1]) = <<<<<<"g","e","t","_","u","s","e","r">>, 1>>>>

\* a name bound twice, its function emitted twice
C25_WitnessBoundTwice ==
  /\ ret # NONE
  /\ Len(Bindings(args)) = 2
  /\ Len(FastMcpTools(ret[1])) = 2
  /\ FastMcpTools(ret[1])[1] = FastMcpTools(ret[1])[2]
-----------------------------------------------------------------------------
(* Properties of the scan of one Python file *)

SameTool(a, b) == a.name = b.name /\ a.source = b.source

\* the first tool of the batch with the name and source of a tool
FirstEmitted(batch, tool) ==
  batch.tools[Min({i \in DOMAIN batch.tools : SameTool(batch.tools[i], tool)})]

\* the defs decorated @X.tool(...) with X bound to FastMCP in the file
BoundDecorated(file) ==
  {i \in DOMAIN file.content :
     /\ file.content[i].k = "py_def"
     /\ \E b \in DOMAIN file.content :
          /\ file.content[b].k = "py_fastmcp"
          /\ file.content[i].decorator = "@" \o file.content[b].inst \o ".tool()"}

\* C26: of the tools of a batch with one name and one source the manifest
\* holds at most the one emitted first, and holds it when no filter is given;
\* a function decorated @X.tool(...) with X bound to FastMCP is emitted at one
\* source with tag mcp and then with tag fastmcp, is in the unfiltered
\* manifest once, tagged mcp, and is not in a manifest filtered with
\* framework fastmcp.
C26_FirstPassWins ==
  ret.manifest # NONE =>
    LET batch == ret.batch[1]
        tools == ret.manifest[1].tools
    IN /\ \A i \in DOMAIN tools : tools[i] = FirstEmitted(batch, tools[i])
       /\ \A i, j \in DOMAIN tools : i # j => ~SameTool(tools[i], tools[j])
       /\ args.framework = NONE =>
            \A b \in DOMAIN batch.tools :
              \E i \in DOMAIN tools : SameTool(tools[i], batch.tools[b])
       /\ \A d \in BoundDecorated(args.file) :
            LET source == SourceAt(args.file, getLineNumber(args.file.content, d))
                Here(tool) == tool.name = args.file.content[d].name /\ tool.source = source
                emitted == SelectSeq(batch.tools, Here)
                kept == SelectSeq(tools, Here)
            IN /\ Len(emitted) >= 2
               /\ emitted[1].framework = "mcp"
               /\ \A e \in 2..Len(emitted) : emitted[e].framework = "fastmcp"
               /\ args.framework = NONE => Len(kept) = 1 /\ kept[1].framework = "mcp"
               /\ args.framework = SOME("fastmcp") => kept = <<>>

\* a scan filtered with fastmcp of a file with a bound instance and a function
\* it decorates
C26_Witness ==
  /\ ret.manifest # NONE
  /\ args.framework = SOME("fastmcp")
  /\ BoundDecorated(args.file) # {}
  /\ \E i \in DOMAIN ret.batch[1].tools : ret.batch[1].tools[i].framework = "fastmcp"
  /\ ret.manifest[1].tools = <<>>
=============================================================================
